---------------------------- MODULE Spec2Model ----------------------------
(***************************************************************************)
(* A model of the VBAN intercom of camera-box (src/src/intercom.rs):       *)
(* the jitter buffer (AudioBuffer / TestableAudioBuffer), the session      *)
(* supervisor (run_intercom), one session (run_intercom_inner) with its    *)
(* receiver thread (run_receiver) and its mute controller                  *)
(* (run_power_button_monitor).                                             *)
(***************************************************************************)
EXTENDS Integers, Sequences, FiniteSets, TLC

(***************************************************************************)
(* Bounds of the model.                                                    *)
(***************************************************************************)
\* Largest capacity a TestableAudioBuffer is constructed with.
MaxCap == 5
\* Longest slice handed to push_samples, and largest count handed to pop_samples.
MaxData == 5
\* Number of samples the pushing side produces over a run (labels 1..MaxVal).
MaxVal == 8

\* Sessions the supervisor starts over a run.
MaxSessions == 2
\* Samples per VBAN packet (CHUNK_SIZE, 128 in the source), scaled down.
ChunkSize == 1
\* Consecutive failed reads that force a restart (500 in the source), scaled down.
StallLimit == 2
\* The report interval (10 s in the source) in clock ticks.
ReportTicks == 2
\* Samples one session captures over a run.
MaxCaptured == 2
\* Press edges the mute controllers read over a run.
MaxPress == 2
\* Datagrams the receivers accept over a run.
MaxReceived == 1
\* lookahead_samples of the limiter (24 at 48 kHz), scaled down.
LookaheadSamples == 1
\* Calls of process made on one limiter.
MaxCalls == 4
\* Samples the largest accepted datagram carries (MAX_VBAN_PACKET_SIZE bounds
\* it far below the jitter buffer's capacity).
MaxPayload == 2

\* Longest stream name handed to VbanHeader::new.
MaxNameLen == 16
\* Bytes a datagram may carry past the header when decode is called on it.
MaxExtra == 2

Min(a, b) == IF a < b THEN a ELSE b

(***************************************************************************)
(* Jitter buffer: AudioBuffer and TestableAudioBuffer have the same body.  *)
(***************************************************************************)
VARIABLES
  tb_samples,   \* self.samples (front of the VecDeque is element 1)
  tb_capacity,  \* self.capacity
  tb_pc,        \* "idle", or "evict": a push_samples call is in its while loop
  tb_data,      \* the slice `data` of the push_samples call (last or current)
  tb_count,     \* the `count` of the last pop_samples call
  tb_ret,       \* the Vec returned by the last pop_samples call
  tb_op,        \* the last call entered: "new", "push" or "pop"
  tb_before,    \* self.samples when the last call was entered
  tb_next,      \* the next sample label the pushing side produces
  tb_delivered  \* every sample pop_samples has returned so far, in order

tbvars == <<tb_samples, tb_capacity, tb_pc, tb_data, tb_count, tb_ret, tb_op,
            tb_before, tb_next, tb_delivered>>

(***************************************************************************)
(* Supervisor, session, receiver and mute controller.                      *)
(***************************************************************************)
VARIABLES
  running,              \* the shared stop flag (Arc<AtomicBool>), set until stop
  sup_pc,               \* run_intercom: "loop_check", "in_session", "backoff", "returned"
  sup_ret,              \* what run_intercom returned: "none" until it returns
  session,              \* number of run_intercom_inner calls made so far
  eng_pc,               \* position of run_intercom_inner (see EngPcs)
  inner_ret,            \* what run_intercom_inner returned, until matched
  io,                   \* the period's last device call: op, result, recoveries
  is_muted,             \* the period's snapshot of the mute flag
  frames,               \* frames the period's readi returned (0: none, or an error)
  frame_counter,        \* u32 VBAN frame counter, as [hi, lo]
  frames_sent,          \* AtomicU64 frames_sent
  samples_captured,     \* AtomicU64 samples_captured
  capture_stall_count,  \* u32 consecutive reads without samples
  last_capture_samples, \* samples_captured at the last report
  since_report,         \* last_report.elapsed() in ticks (saturates at ReportTicks)
  sidetone_buf,         \* VecDeque of raw captured samples
  limiter,              \* the PeakLimiter: [envelope, lookahead_buffer]
  tx,                   \* packets handed to vban_socket.send in this period
  vban_samples,         \* what the period popped from the jitter buffer
  playback_buf,         \* the period mixed for the playback device
  playback_out,         \* the period last handed to writei
  muted,                \* per session: its mute flag (Arc<AtomicBool>)
  mute_pc,              \* per session: its power-button monitor thread
  presses,              \* per session: press edges its monitor has read
  recv_pc,              \* per session: its receiver thread
  playback_buffer,      \* per session: samples of its jitter buffer
  frames_received,      \* per session: AtomicU64 frames_received
  budget                \* what the environment does over a run: sessions it
                        \* lets start, press edges, accepted datagrams,
                        \* samples the capture device delivers to a session,
                        \* and ticks a device call blocks at most

supvars == <<running, sup_pc, sup_ret, session>>
engvars == <<eng_pc, inner_ret, io, is_muted, frames, frame_counter, frames_sent,
             samples_captured, capture_stall_count, last_capture_samples,
             since_report, sidetone_buf, limiter, tx, vban_samples,
             playback_buf, playback_out>>
mutevars == <<muted, mute_pc, presses>>
recvvars == <<recv_pc, playback_buffer, frames_received>>
sysvars == <<supvars, engvars, mutevars, recvvars, budget>>

(***************************************************************************)
(* The functions of the wire format (src/src/vban.rs) and the pure parts   *)
(* of the session, called on their own.                                    *)
(***************************************************************************)
VARIABLES
  wire_op,   \* the last call: "none", "new", "encode", "decode", ...
  wire_in,   \* its arguments
  wire_out   \* what it returned

wirevars == <<wire_op, wire_in, wire_out>>

vars == <<tbvars, sysvars, wirevars>>

\* VecDeque::pop_front: removes the front element; on an empty deque it
\* returns None and leaves the deque as it is.
pop_front(s) == IF s = <<>> THEN s ELSE Tail(s)

\* The condition of push_samples' while loop.
PushMustEvictNoData(s, d, cap) == Len(s) > cap
PushMustEvict(s, d, cap) == Len(s) + Len(d) > cap

\* One pass through the body of push_samples' while loop.
PushEvictBodyBack(s) == IF s = <<>> THEN s ELSE SubSeq(s, 1, Len(s) - 1)
PushEvictBody(s) == pop_front(s)

\* pop_samples: available = count.min(len); drain(..available).
PopAvailable(count, s) == Min(count, Len(s))
PopReturnedBack(count, s) ==
  SubSeq(s, Len(s) - PopAvailable(count, s) + 1, Len(s))
PopReturned(count, s) == SubSeq(s, 1, PopAvailable(count, s))
PopRemainingKeeps(count, s) == s
PopRemaining(count, s) == SubSeq(s, PopAvailable(count, s) + 1, Len(s))


(***************************************************************************)
(* vban.rs: the VBAN header.                                               *)
(***************************************************************************)
\* VBAN_MAGIC = b"VBAN"
VBAN_MAGIC == <<86, 66, 65, 78>>
VBAN_HEADER_SIZE == 28
VBAN_STREAM_NAME_SIZE == 16
\* VbanProtocol::Audio
ProtocolAudio == 0

\* SAMPLE_RATES (index i of the source is element i + 1).
SAMPLE_RATES ==
  <<6000, 12000, 24000, 48000, 96000, 192000, 384000,
    8000, 16000, 32000, 64000, 128000, 256000, 512000,
    11025, 22050, 44100, 88200, 176400, 352800>>

\* Option and Result values.
None == [some |-> FALSE]
Some(v) == [some |-> TRUE, value |-> v]
Err(e) == [ok |-> FALSE, err |-> e]
Ok(v) == [ok |-> TRUE, value |-> v]

\* u8::saturating_sub, u8::saturating_add, and the masks of a byte.
SaturatingSub(a, b) == IF a > b THEN a - b ELSE 0
SaturatingAddU8(a, b) == Min(a + b, 255)
Low5(b) == b % 32
Top3(b) == b - (b % 32)

\* u32::to_le_bytes and u32::from_le_bytes on [hi, lo].
to_le_bytes(c) == <<c.lo % 256, c.lo \div 256, c.hi % 256, c.hi \div 256>>
from_le_bytes(b) == [hi |-> b[3] + 256 * b[4], lo |-> b[1] + 256 * b[2]]

\* sample_rate_to_index: position() of the first entry equal to rate.
PositionOneBased(rate) ==
  IF \E i \in 1..Len(SAMPLE_RATES) : SAMPLE_RATES[i] = rate
    THEN Some(CHOOSE i \in 1..Len(SAMPLE_RATES) :
                /\ SAMPLE_RATES[i] = rate
                /\ \A j \in 1..(i - 1) : SAMPLE_RATES[j] # rate)
    ELSE None
sample_rate_to_index(rate) ==
  IF \E i \in 1..Len(SAMPLE_RATES) : SAMPLE_RATES[i] = rate
    THEN Some((CHOOSE i \in 1..Len(SAMPLE_RATES) :
                 /\ SAMPLE_RATES[i] = rate
                 /\ \A j \in 1..(i - 1) : SAMPLE_RATES[j] # rate) - 1)
    ELSE None

\* The 16 name bytes of VbanHeader::new: at most 15 bytes of the name, then 0.
NameBytes(name) ==
  [i \in 1..VBAN_STREAM_NAME_SIZE |->
     IF i <= Min(Len(name), VBAN_STREAM_NAME_SIZE - 1) THEN name[i] ELSE 0]

\* VbanHeader::new(stream_name, sample_rate, channels, codec)
HeaderNew(stream_name, sample_rate, channels, codec) ==
  LET idx == sample_rate_to_index(sample_rate)
  IN IF ~idx.some THEN Err("Unsupported sample rate")
     ELSE Ok([sample_rate_index |-> idx.value,
              samples_per_frame |-> 0,
              channels |-> SaturatingSub(channels, 1),
              codec |-> codec,
              stream_name |-> NameBytes(stream_name),
              frame_counter |-> [hi |-> 0, lo |-> 0]])

\* VbanHeader::sample_rate
sample_rate(h) ==
  LET idx == Low5(h.sample_rate_index)
  IN IF idx < Len(SAMPLE_RATES) THEN SAMPLE_RATES[idx + 1] ELSE 48000

\* VbanHeader::num_channels (u8) and VbanHeader::num_samples (usize)
num_channels(h) == SaturatingAddU8(h.channels, 1)
num_samples(h) == h.samples_per_frame + 1

\* VbanHeader::stream_name_str: the bytes before the first 0, or "" when they
\* are not UTF-8 (the names of this model hold no byte above 0x7F but 0xFF,
\* which no UTF-8 text holds).
stream_name_str(h) ==
  LET zeros == {i \in 1..VBAN_STREAM_NAME_SIZE : h.stream_name[i] = 0}
      end == IF zeros = {} THEN VBAN_STREAM_NAME_SIZE
             ELSE (CHOOSE i \in zeros : \A j \in zeros : i <= j) - 1
      text == SubSeq(h.stream_name, 1, end)
  IN IF \A i \in 1..end : text[i] < 128 THEN text ELSE <<>>

\* VbanHeader::encode(&self, samples_per_frame)
EncodeSamplesByteNoSub(samples_per_frame) == samples_per_frame % 256
EncodeSamplesByte(samples_per_frame) ==
  SaturatingSub(samples_per_frame, 1) % 256

EncodeBigEndian(h, samples_per_frame) ==
  VBAN_MAGIC
    \o <<Low5(h.sample_rate_index), EncodeSamplesByte(samples_per_frame),
         h.channels, h.codec>>
    \o h.stream_name
    \o <<h.frame_counter.hi \div 256, h.frame_counter.hi % 256,
         h.frame_counter.lo \div 256, h.frame_counter.lo % 256>>
encode(h, samples_per_frame) ==
  VBAN_MAGIC
    \o <<Low5(h.sample_rate_index), EncodeSamplesByte(samples_per_frame),
         h.channels, h.codec>>
    \o h.stream_name
    \o to_le_bytes(h.frame_counter)

\* VbanHeader::decode(data)
DecodeNoProtocolCheck(data) ==
  IF Len(data) < VBAN_HEADER_SIZE THEN Err("VBAN packet too short")
  ELSE IF SubSeq(data, 1, 4) # VBAN_MAGIC THEN Err("Invalid VBAN magic")
  ELSE Ok([sample_rate_index |-> Low5(data[5]),
           samples_per_frame |-> data[6],
           channels |-> data[7],
           codec |-> data[8],
           stream_name |-> SubSeq(data, 9, 24),
           frame_counter |-> from_le_bytes(SubSeq(data, 25, 28))])
decode(data) ==
  IF Len(data) < VBAN_HEADER_SIZE THEN Err("VBAN packet too short")
  ELSE IF SubSeq(data, 1, 4) # VBAN_MAGIC THEN Err("Invalid VBAN magic")
  ELSE IF Top3(data[5]) # ProtocolAudio THEN Err("Not a VBAN audio packet")
  ELSE Ok([sample_rate_index |-> Low5(data[5]),
           samples_per_frame |-> data[6],
           channels |-> data[7],
           codec |-> data[8],
           stream_name |-> SubSeq(data, 9, 24),
           frame_counter |-> from_le_bytes(SubSeq(data, 25, 28))])

(***************************************************************************)
(* Program constants and the pure parts of the session.                    *)
(***************************************************************************)
\* PERIOD_SIZE (256) is two chunks of CHUNK_SIZE (128).
PeriodSize == 2 * ChunkSize
\* A playback period is stereo: playback_buf holds PERIOD_SIZE * 2 samples.
PlaybackLen == 2 * PeriodSize
\* sidetone_buf takes samples while it holds fewer than 512 = 2 * PERIOD_SIZE.
SidetoneMax == 2 * PeriodSize
\* The jitter buffer of a session holds SAMPLE_RATE samples:
\* AudioBuffer::new(SAMPLE_RATE as usize).
JitterCapacity == 48000
\* A u32 is kept as two 16-bit halves [hi, lo] (value hi * 2^16 + lo).
U16 == 65536
\* PRE_CLIP_THRESHOLD
PreClipThreshold == 30000
\* IntercomConfig::default(): mic_gain 8.0, headphone_gain 10.0,
\* sidetone_gain 30.0, limiter_threshold 0.15 (in units of 1/ThresholdDen).
MicGain == 8
HeadphoneGain == 10
SidetoneGain == 30
ThresholdDen == 10000
LimiterThreshold == 1500
\* input_event: EV_KEY = 1, KEY_POWER = 116, value 1 = press.
EvKey == 1
KeyPower == 116
PressValue == 1

Sessions == 1..MaxSessions

Clamp(x, lo, hi) == IF x < lo THEN lo ELSE IF x > hi THEN hi ELSE x
Abs(x) == IF x < 0 THEN -x ELSE x
\* Division rounding toward zero, as a float-to-integer `as` cast does.
TruncDiv(a, b) == IF a >= 0 THEN a \div b ELSE -((-a) \div b)

\* push_samples as a whole, for a slice that fits the capacity.
RECURSIVE push_samples(_, _, _)
push_samples(s, d, cap) ==
  IF PushMustEvict(s, d, cap)
    THEN push_samples(PushEvictBody(s), d, cap)
    ELSE s \o d

(***************************************************************************)
(* f32 arithmetic.  The limiter computes in f32; an f32 that is zero or    *)
(* positive and normal is the record [m, e] standing for m * 2^e, with     *)
(* m = 0 or 2^23 <= m < 2^24.  Every operation rounds its exact result to  *)
(* the nearest f32, ties to even, as IEEE 754 arithmetic does.  Signs are  *)
(* handled by the callers (rounding is symmetric); no value of the         *)
(* limiter is subnormal, infinite or NaN.                                  *)
(***************************************************************************)
F32Zero == [m |-> 0, e |-> 0]
F32One == [m |-> 2^23, e |-> -23]

\* Number of bits of v, for 0 <= v < 2^30.
BitLen(v) == CHOOSE n \in 0..30 : v < 2^n /\ (n = 0 \/ 2^(n - 1) <= v)

\* The f32 nearest to v * 2^e (ties to even), for an integer 0 <= v < 2^30
\* whose lowest bit may stand for any nonzero rest below it.
F32Round(v, e) ==
  IF v = 0 THEN F32Zero
  ELSE LET nb == BitLen(v)
       IN IF nb <= 24
            THEN [m |-> v * 2^(24 - nb), e |-> e - (24 - nb)]
            ELSE LET sh == nb - 24
                     m == v \div 2^sh
                     rest == v % 2^sh
                     half == 2^(sh - 1)
                     up == rest > half \/ (rest = half /\ m % 2 = 1)
                 IN IF up /\ m + 1 = 2^24
                      THEN [m |-> 2^23, e |-> e + sh + 1]
                      ELSE [m |-> IF up THEN m + 1 ELSE m, e |-> e + sh]

\* `n as f32` for an integer 0 <= n < 2^24 (exact).
F32FromInt(n) == F32Round(n, 0)

\* a * 2^k (exact).
F32Scale(a, k) == IF a.m = 0 THEN a ELSE [a EXCEPT !.e = a.e + k]

\* a < b
F32Less(a, b) ==
  IF a.m = 0 THEN b.m # 0
  ELSE IF b.m = 0 THEN FALSE
  ELSE a.e < b.e \/ (a.e = b.e /\ a.m < b.m)

\* x.clamp(lo, hi)
F32Clamp(x, lo, hi) ==
  IF F32Less(x, lo) THEN lo ELSE IF F32Less(hi, x) THEN hi ELSE x

\* a * b: the 48-bit product of the mantissas is formed from 12-bit halves.
F32Mul(a, b) ==
  IF a.m = 0 \/ b.m = 0 THEN F32Zero
  ELSE LET a1 == a.m \div 4096
           a0 == a.m % 4096
           b1 == b.m \div 4096
           b0 == b.m % 4096
           mid == a1 * b0 + a0 * b1
           low == a0 * b0 + (mid % 4096) * 4096
           lo24 == low % 2^24
           hi24 == a1 * b1 + mid \div 4096 + low \div 2^24
           sticky == IF lo24 % 2^22 # 0 THEN 1 ELSE 0
       IN F32Round((hi24 * 4 + lo24 \div 2^22) * 2 + sticky, a.e + b.e + 21)

\* a + b
F32Add(a, b) ==
  IF a.m = 0 THEN b
  ELSE IF b.m = 0 THEN a
  ELSE LET hi == IF a.e < b.e THEN b ELSE a
           lo == IF a.e < b.e THEN a ELSE b
           d == Min(hi.e - lo.e, 27)
           q == (lo.m * 8) \div 2^d
           sticky == IF (lo.m * 8) % 2^d # 0 THEN 1 ELSE 0
       IN F32Round((hi.m * 8 + q) * 2 + sticky, hi.e - 4)

\* a - b for a >= b
F32Sub(a, b) ==
  IF b.m = 0 THEN a
  ELSE LET d == Min(a.e - b.e, 27)
           q == (b.m * 8) \div 2^d
           sticky == IF (b.m * 8) % 2^d # 0 THEN 1 ELSE 0
       IN F32Round((a.m * 8 - q - sticky) * 2 + sticky, a.e - 4)

\* The f32 nearest to n / k for integers 0 <= n < 2^24 and 0 < k <= 2^15.
F32Quot(n, k) ==
  IF n = 0 THEN F32Zero
  ELSE LET en == 24 - BitLen(n)
           nn == n * 2^en
           ek == IF k = 2^15 THEN -1 ELSE 15 - BitLen(k)
           kn == IF k = 2^15 THEN 2^14 ELSE k * 2^ek
           q0 == nn \div kn
           r0 == nn % kn
           f1 == (r0 * 65536) \div kn
           r1 == (r0 * 65536) % kn
           f2 == (r1 * 2) \div kn
           sticky == IF (r1 * 2) % kn # 0 THEN 1 ELSE 0
       IN F32Round((q0 * 2^17 + f1 * 2 + f2) * 2 + sticky, ek - en - 18)

\* a / (k / 2^j) for an integer 0 < k <= 2^15: the limiter divides by peaks,
\* which are sample magnitudes over 32768.0.
F32DivBy(a, k, j) == F32Scale(F32Quot(a.m, k), a.e + j)

\* `x as i16` / `x as i32` for x >= 0 in range: the integer part.
F32Trunc(a) ==
  IF a.m = 0 \/ a.e <= -24 THEN 0
  ELSE IF a.e >= 0 THEN a.m * 2^a.e
  ELSE a.m \div 2^(-a.e)

\* attack_coeff = exp(-1 / (0.0001 * 48000)) and release_coeff =
\* exp(-1 / (0.050 * 48000)), computed in f32 at SAMPLE_RATE = 48000:
\* 0x3F4FDB0F (0.8119363) and 0x3F7FE4B3 (0.9995834).
AttackCoeff == [m |-> 13622031, e |-> -24]
ReleaseCoeff == [m |-> 16770227, e |-> -24]

\* A configured threshold (in units of 1/ThresholdDen) as the f32 nearest to
\* it.
ThresholdF32(threshold) == F32Quot(threshold, ThresholdDen)

\* PeakLimiter::new(threshold, SAMPLE_RATE): threshold.clamp(0.01, 1.0).
LimiterNew(threshold) ==
  [threshold |-> F32Clamp(ThresholdF32(threshold), F32Quot(1, 100), F32One),
   envelope |-> F32One,
   lookahead_buffer |-> <<>>]

\* The limiter a session creates under IntercomConfig::default():
\* Some(PeakLimiter::new(config.limiter_threshold, SAMPLE_RATE)).
SessionLimiter == LimiterNew(LimiterThreshold)

RECURSIVE MaxAbs(_)
MaxAbs(s) ==
  IF s = <<>> THEN 0
  ELSE LET m == MaxAbs(Tail(s)) IN IF Abs(Head(s)) > m THEN Abs(Head(s)) ELSE m

\* lookahead_buffer.len() <= lookahead_samples: the look-ahead is filling.
StillFillingStrict(pushed) == Len(pushed) < LookaheadSamples
StillFilling(pushed) == Len(pushed) <= LookaheadSamples

\* limited.clamp(-hard_clip_max, hard_clip_max)
HardClipOff(limited, hard_clip_max) == limited
HardClip(limited, hard_clip_max) ==
  Clamp(limited, -hard_clip_max, hard_clip_max)

\* (delayed as f32 * envelope).clamp(-32768.0, 32767.0) as i16
Limited(delayed, envelope) ==
  LET mag == F32Trunc(F32Mul(F32FromInt(Abs(delayed)), envelope))
  IN Clamp(IF delayed < 0 THEN -mag ELSE mag, -32768, 32767)

\* (self.threshold * 32767.0) as i16
HardClipMax(threshold) == F32Trunc(F32Mul(threshold, F32FromInt(32767)))

\* PeakLimiter::process: the limiter after the call and the sample returned.
LimiterProcess(lim, input) ==
  LET pushed == Append(lim.lookahead_buffer, input)
  IN IF StillFilling(pushed)
       THEN [lim |-> [lim EXCEPT !.lookahead_buffer = pushed], out |-> 0]
       ELSE
         LET delayed == Head(pushed)
             window == Tail(pushed)
             top == MaxAbs(window)
             peak == F32Scale(F32FromInt(top), -15)
             target_gain ==
               IF F32Less(lim.threshold, peak)
                 THEN F32DivBy(lim.threshold, top, 15)
                 ELSE F32One
             coeff == IF F32Less(target_gain, lim.envelope)
                        THEN AttackCoeff ELSE ReleaseCoeff
             envelope == F32Add(F32Mul(lim.envelope, coeff),
                                F32Mul(target_gain, F32Sub(F32One, coeff)))
         IN [lim |-> [lim EXCEPT !.lookahead_buffer = window,
                                 !.envelope = envelope],
             out |-> HardClip(Limited(delayed, envelope),
                              HardClipMax(lim.threshold))]

\* The limiter and the sample returned after each of the calls
\* process(inputs[1]), process(inputs[2]), ... on the limiter lim.
RECURSIVE LimiterCalls(_, _)
LimiterCalls(lim, inputs) ==
  IF inputs = <<>> THEN <<>>
  ELSE LET first == LimiterProcess(lim, Head(inputs))
       IN <<first>> \o LimiterCalls(first.lim, Tail(inputs))

\* PeakLimiter::process_buffer: [lim, out] after the samples of buf, in order.
RECURSIVE LimiterProcessBuffer(_, _)
LimiterProcessBuffer(lim, buf) ==
  IF buf = <<>> THEN [lim |-> lim, out |-> <<>>]
  ELSE LET first == LimiterProcess(lim, Head(buf))
           rest == LimiterProcessBuffer(first.lim, Tail(buf))
       IN [lim |-> rest.lim, out |-> <<first.out>> \o rest.out]

\* PeakLimiter::reset: the envelope back to 1.0, the look-ahead emptied.
LimiterReset(lim) ==
  [lim EXCEPT !.envelope = F32One, !.lookahead_buffer = <<>>]

\* sidetone_buf.len() < 512: whether the ring takes one more sample.
SidetoneHasRoomAlways(buf) == TRUE
SidetoneHasRoom(buf) == Len(buf) < SidetoneMax

\* Raw samples go to sidetone_buf while it holds fewer than 512.
RECURSIVE SidetoneWrite(_, _)
SidetoneWrite(buf, samples) ==
  IF samples = <<>> THEN buf
  ELSE SidetoneWrite(IF SidetoneHasRoom(buf)
                       THEN Append(buf, Head(samples)) ELSE buf,
                     Tail(samples))

\* Pre-clip, then mic gain, clamped to i16.
PreClipGain(sample) ==
  Clamp(Clamp(sample, -PreClipThreshold, PreClipThreshold) * MicGain,
        -32768, 32767)

\* samples.chunks(size): the chunks of at most size samples, in order.
RECURSIVE ChunksOf(_, _)
ChunksOf(samples, size) ==
  IF samples = <<>> THEN <<>>
  ELSE LET n == Min(size, Len(samples))
       IN <<SubSeq(samples, 1, n)>>
            \o ChunksOf(SubSeq(samples, n + 1, Len(samples)), size)

\* The chunks of at most ChunkSize samples, in order.
Chunks(samples) == ChunksOf(samples, ChunkSize)

\* Mono to interleaved stereo.
StereoMono(chunk) == chunk
Stereo(chunk) == [i \in 1..(2 * Len(chunk)) |-> chunk[(i + 1) \div 2]]

\* u32::wrapping_add(1)
SaturatingInc(c) ==
  IF c.lo + 1 < U16 THEN [c EXCEPT !.lo = c.lo + 1]
  ELSE IF c.hi + 1 < U16 THEN [hi |-> c.hi + 1, lo |-> 0]
  ELSE c
WrappingInc(c) ==
  IF c.lo + 1 < U16 THEN [c EXCEPT !.lo = c.lo + 1]
  ELSE [hi |-> (c.hi + 1) % U16, lo |-> 0]

\* c after k wrapping increments.
RECURSIVE WrappingAdd(_, _)
WrappingAdd(c, k) == IF k = 0 THEN c ELSE WrappingAdd(WrappingInc(c), k - 1)

\* config.stream_name (the default, "cam1") and the engine's
\* stream_name_bytes: its first 16 bytes, padded with zeros.
StreamName == <<99, 97, 109, 49>>
StreamNameBytes(name) ==
  [i \in 1..16 |-> IF i <= Min(Len(name), 16) THEN name[i] ELSE 0]

\* The 28 header bytes the period loop writes for a chunk of c samples:
\* magic, 3 (48 kHz), c - 1, 1 (two channels), 1 (PCM16), name, counter.
EngineHeaderNoSub(c, fc, name) ==
  VBAN_MAGIC \o <<3, c % 256, 1, 1>>
    \o StreamNameBytes(name) \o to_le_bytes(fc)
EngineHeader(c, fc, name) ==
  VBAN_MAGIC \o <<3, SaturatingSub(c, 1) % 256, 1, 1>>
    \o StreamNameBytes(name) \o to_le_bytes(fc)

\* The packets of one period: the k-th chunk carries the frame counter after
\* k - 1 increments; byte 5 of its header is samples_per_frame - 1; the
\* packet is header and payload, two bytes for each payload sample.
PacketsOf(samples, fc, size, name) ==
  LET cs == ChunksOf(samples, size)
  IN [k \in 1..Len(cs) |->
        [samples_per_frame |-> (Len(cs[k]) - 1) % 256,
         frame_counter |-> WrappingAdd(fc, k - 1),
         header |-> EngineHeader(Len(cs[k]), WrappingAdd(fc, k - 1), name),
         payload |-> Stereo(cs[k]),
         size |-> VBAN_HEADER_SIZE + Len(Stereo(cs[k])) * 2]]

Packets(samples, fc) == PacketsOf(samples, fc, ChunkSize, StreamName)

\* Whether the result of vban_socket.send ends the loop over the chunks: the
\* result is dropped (let _ =).
SendFatalOnError(ok) == ~ok
SendFatal(ok) == FALSE

\* The loop over the chunks of a period, results[k] telling whether the k-th
\* send succeeded: the packets handed to the socket, the frame counter and
\* the sent counter after the loop, and where the period goes on.
SendPeriod(samples, fc, sent, results, size, name) ==
  LET pk == PacketsOf(samples, fc, size, name)
      fatal == {k \in 1..Len(pk) : SendFatal(results[k])}
      last == IF fatal = {} THEN Len(pk)
              ELSE CHOOSE k \in fatal : \A j \in fatal : k <= j
      counted == IF fatal = {} THEN last ELSE last - 1
  IN [tx |-> SubSeq(pk, 1, last),
      frame_counter |-> WrappingAdd(fc, counted),
      frames_sent |-> sent + counted,
      flow |-> IF fatal = {} THEN "playback" ELSE "failed"]

\* The period loop skips sidetone, limiter and packets while muted.
CaptureProcessesAlways(m) == TRUE
CaptureProcesses(m) == ~m

\* The packets of consecutive periods of a session, each period a record
\* [is_muted, samples, results]: every packet handed to the socket, in
\* order, and the counters after the last period.
RECURSIVE SendPeriods(_, _, _, _, _)
SendPeriods(periods, fc, sent, size, name) ==
  IF periods = <<>>
    THEN [tx |-> <<>>, frame_counter |-> fc, frames_sent |-> sent]
    ELSE LET p == Head(periods)
             r == IF CaptureProcesses(p.is_muted)
                    THEN SendPeriod(p.samples, fc, sent, p.results, size, name)
                    ELSE [tx |-> <<>>, frame_counter |-> fc,
                          frames_sent |-> sent, flow |-> "playback"]
             rest == SendPeriods(Tail(periods), r.frame_counter,
                                 r.frames_sent, size, name)
         IN [tx |-> r.tx \o rest.tx,
             frame_counter |-> rest.frame_counter,
             frames_sent |-> rest.frames_sent]

\* The sidetone sample of one playback sample: 0 while muted, else the front
\* of the ring (0 when it is empty).
SidetoneSampleIgnoresMute(m, st) == IF st = <<>> THEN 0 ELSE Head(st)
SidetoneSampleStale(m, st) == IF m THEN 0 ELSE IF st = <<>> THEN 1 ELSE Head(st)
SidetoneSample(m, st) == IF m \/ st = <<>> THEN 0 ELSE Head(st)

\* vban_samples.get(i).copied().unwrap_or(0): the network sample of playback
\* position i (from 0), 0 where pop_samples returned fewer samples.
NetworkSampleHoldsLast(vban, i) ==
  IF i + 1 <= Len(vban) THEN vban[i + 1]
  ELSE IF vban = <<>> THEN 0 ELSE vban[Len(vban)]
NetworkSample(vban, i) == IF i + 1 <= Len(vban) THEN vban[i + 1] ELSE 0

\* The mix of one playback period: [out, sidetone] after PlaybackLen samples.
\* i counts from 0 as in the source; vban is the popped jitter-buffer samples.
RECURSIVE Mix(_, _, _, _)
Mix(i, vban, st, m) ==
  IF i = PlaybackLen THEN [out |-> <<>>, sidetone |-> st]
  ELSE
    LET v == NetworkSample(vban, i) * HeadphoneGain
        popped == IF ~m /\ i % 2 = 0 THEN pop_front(st) ELSE st
        \* even i: pop_front().unwrap_or(0); odd i: front().unwrap_or(0) of
        \* the deque as the pop of index i - 1 left it
        mono == SidetoneSample(m, st)
        side == mono * SidetoneGain
        rest == Mix(i + 1, vban, popped, m)
    IN [out |-> <<Clamp(v + side, -32768, 32767)>> \o rest.out,
        sidetone |-> rest.sidetone]

\* The outbound sample of one captured sample: pre-clip, then
\* (clipped as f32 * mic_gain) clamped to the i16 range and cast to i16; the
\* gain is the fraction num / den.
GainThenPreClip(sample, mic_gain) ==
  Clamp(TruncDiv(sample * mic_gain.num, mic_gain.den),
        -PreClipThreshold, PreClipThreshold)
PreClipGainBy(sample, mic_gain) ==
  Clamp(TruncDiv(Clamp(sample, -PreClipThreshold, PreClipThreshold)
                   * mic_gain.num, mic_gain.den),
        -32768, 32767)

\* The limiter of a session: Some(PeakLimiter::new(limiter_threshold, ..))
\* if config.limiter_enabled, else None.
LimiterOf(config) ==
  IF config.limiter_enabled THEN Some(LimiterNew(config.limiter_threshold))
  ELSE None

\* vban_samples of a captured period, and the limiter after it: every sample
\* pre-clipped and scaled, then process_buffer if there is a limiter.
Outbound(config, lim, buf) ==
  LET vban == [i \in 1..Len(buf) |-> PreClipGainBy(buf[i], config.mic_gain)]
  IN IF lim.some
       THEN LET r == LimiterProcessBuffer(lim.value, vban)
            IN [limiter |-> Some(r.lim), out |-> r.out]
       ELSE [limiter |-> lim, out |-> vban]

\* The samples the sidetone loop pushes: those of capture_buf.
SidetoneSourceProcessed(buf, vban) == vban
SidetoneSource(buf, vban) == buf

\* The Ok(frames) branch of a period for the captured samples buf: the
\* sidetone ring, the limiter, and the samples to send.
Captured(st, buf, o) ==
  [sidetone |-> SidetoneWrite(st, SidetoneSource(buf, o.out)),
   limiter |-> o.limiter, out |-> o.out]
CapturePeriod(config, st, lim, buf, m) ==
  IF CaptureProcesses(m)
    THEN Captured(st, buf, Outbound(config, lim, buf))
    ELSE [sidetone |-> st, limiter |-> lim, out |-> <<>>]

\* Consecutive periods of a session, each [is_muted, buf], with no network
\* audio: for every period the ring and the limiter it met, the ring after
\* its capture step, the samples it sent and the period it played.
RECURSIVE RunPeriods(_, _, _, _)
\* The period p whose capture step gave c, and the periods after it.
RunPeriod(config, st, lim, p, c, later) ==
  LET mix == Mix(0, <<>>, c.sidetone, p.is_muted)
  IN <<[before |-> st, limiter |-> lim, written |-> c.sidetone,
        out |-> c.out, played |-> mix.out]>>
       \o RunPeriods(config, mix.sidetone, c.limiter, later)
RunPeriods(config, st, lim, periods) ==
  IF periods = <<>> THEN <<>>
  ELSE RunPeriod(config, st, lim, Head(periods),
                 CapturePeriod(config, st, lim, Head(periods).buf,
                               Head(periods).is_muted),
                 Tail(periods))

\* i32::MAX
I32Max == 2147483647

\* a + b on i32: the wrapped sum and whether it overflowed.
OverflowingAdd(a, b) ==
  IF a > 0 /\ b > I32Max - a
    THEN [value |-> (a - I32Max - 1) + (b - I32Max - 1), overflow |-> TRUE]
  ELSE IF a < 0 /\ b < (-I32Max - 1) - a
    THEN [value |-> (a + I32Max + 1) + (b + I32Max + 1), overflow |-> TRUE]
  ELSE [value |-> a + b, overflow |-> FALSE]

\* (sample as f32 * gain) as i32, for whole gains with which the product is
\* exact in f32 and within i32 (the cast saturates beyond: not modelled).
ScaleI32(sample, gain) == sample * gain

\* One playback sample from a network sample and a sidetone sample under the
\* configured gains: (vban + sidetone).clamp(-32768, 32767) as i16. The sum
\* is an i32 addition: on overflow a build with overflow checks panics, a
\* build without them goes on with the wrapped sum.
MixSampleBy(network, mono, headphone_gain, sidetone_gain, checked) ==
  LET sum == OverflowingAdd(ScaleI32(network, headphone_gain),
                            ScaleI32(mono, sidetone_gain))
  IN IF sum.overflow /\ checked
       THEN [panic |-> TRUE, overflow |-> TRUE, sample |-> 0]
       ELSE [panic |-> FALSE, overflow |-> sum.overflow,
             sample |-> Clamp(sum.value, -32768, 32767)]

\* The watchdog's test at a report.
WatchdogStalledNever(captured, last) == FALSE
WatchdogStalled(captured, last) == captured = last

\* The quick stall test after each read.
StallExceeded(count) == count > StallLimit

\* A key event toggles the mute flag: EV_KEY, KEY_POWER, value 1.
IsPressEdgeAnyValue(ev) == ev.type = EvKey /\ ev.code = KeyPower
IsPressEdge(ev) ==
  ev.type = EvKey /\ ev.code = KeyPower /\ ev.value = PressValue

(***************************************************************************)
(* run_receiver: what one datagram does.                                   *)
(***************************************************************************)
\* i16::from_le_bytes and i16::to_le_bytes
I16FromLe(b0, b1) ==
  LET u == b0 + 256 * b1 IN IF u >= 32768 THEN u - 65536 ELSE u
I16ToLe(v) ==
  LET u == IF v < 0 THEN v + 65536 ELSE v IN <<u % 256, u \div 256>>

\* VbanCodec::Pcm16 and VbanCodec::Float32 as u8
CodecPcm16 == 1
CodecFloat32 == 4

\* chunks_exact(2) of the audio bytes as little-endian i16.
Pcm16Samples(bytes) ==
  [i \in 1..(Len(bytes) \div 2) |-> I16FromLe(bytes[2 * i - 1], bytes[2 * i])]

\* (f * 32767.0).clamp(-32768.0, 32767.0) as i16 for the f32 whose bytes are
\* b: 0.0, 0.5, 1.0, -1.0, 2.0 and -2.0 (the floats the model's datagrams
\* carry).
F32Sample(b) ==
  CASE b = <<0, 0, 0, 0>> -> 0
    [] b = <<0, 0, 0, 63>> -> 16383
    [] b = <<0, 0, 128, 63>> -> 32767
    [] b = <<0, 0, 128, 191>> -> -32767
    [] b = <<0, 0, 0, 64>> -> 32767
    [] b = <<0, 0, 0, 192>> -> -32768

\* chunks_exact(4) of the audio bytes as f32 samples.
Float32Samples(bytes) ==
  [i \in 1..(Len(bytes) \div 4) |-> F32Sample(SubSeq(bytes, 4 * i - 3, 4 * i))]

\* The samples of an accepted datagram: Float32 is converted, PCM16 and
\* every other codec byte are read as PCM16.
DecodeSamplesKnownOnly(codec, audio_data) ==
  IF codec = CodecFloat32 THEN Float32Samples(audio_data)
  ELSE IF codec = CodecPcm16 THEN Pcm16Samples(audio_data)
  ELSE <<>>
DecodeSamples(codec, audio_data) ==
  IF codec = CodecFloat32 THEN Float32Samples(audio_data)
  ELSE Pcm16Samples(audio_data)

\* Whether the body of the receiver loop takes the datagram.
RecvAcceptsAnyStream(data, stream_name) ==
  /\ Len(data) >= VBAN_HEADER_SIZE
  /\ decode(data).ok
RecvAccepts(data, stream_name) ==
  /\ Len(data) >= VBAN_HEADER_SIZE
  /\ decode(data).ok
  /\ stream_name_str(decode(data).value) = stream_name

\* What the body of the receiver loop takes from the datagram: the decoded
\* samples of an accepted one, nothing of a dropped one.
RecvSamples(data, stream_name) ==
  IF RecvAccepts(data, stream_name)
    THEN Some(DecodeSamples(decode(data).value.codec,
                            SubSeq(data, VBAN_HEADER_SIZE + 1, Len(data))))
    ELSE None

\* The jitter buffer and the counter after the pass, and where the loop goes
\* ("next": to its condition again).
RecvApply(buffer, received, taken, cap) ==
  IF taken.some
    THEN [buffer |-> push_samples(buffer, taken.value, cap),
          frames_received |-> received + 1,
          flow |-> "next"]
    ELSE [buffer |-> buffer, frames_received |-> received, flow |-> "next"]

\* One pass of the receiver loop in which recv_from returned data.
RecvHandle(buffer, received, data, stream_name, cap) ==
  RecvApply(buffer, received, RecvSamples(data, stream_name), cap)

(***************************************************************************)
(* The inputs of the session.                                              *)
(***************************************************************************)
\* Values the capture device delivers.
CaptureSamples == {100}
CaptureBufs ==
  UNION {[1..n -> CaptureSamples] : n \in 1..PeriodSize}
\* What a read leaves in capture_buf for the session to use: the frames of
\* an Ok(frames), nothing otherwise.
CaptureBufsFor(res) == IF res = "ok" THEN CaptureBufs ELSE {<<>>}
\* Values an accepted datagram carries after decoding.
PayloadSamples == {7}
Payloads == UNION {[1..n -> PayloadSamples] : n \in 0..MaxPayload}
\* Datagrams: too short, undecodable header, another stream's, or accepted.
DatagramKinds == {"short", "bad_header", "other_stream", "ok"}

\* The bytes of PCM16 samples.
Pcm16Bytes(samples) ==
  [i \in 1..(2 * Len(samples)) |->
     I16ToLe(samples[(i + 1) \div 2])[2 - (i % 2)]]

\* The datagram of a packet of the period loop: header, then PCM16 payload.
PacketBytes(p) == p.header \o Pcm16Bytes(p.payload)

\* The header a peer sends for the stream `name` (48 kHz, stereo, PCM16).
PeerHeader(name, payload) ==
  encode(HeaderNew(name, 48000, 2, CodecPcm16).value, Len(payload))

\* The bytes of a datagram of each kind carrying the samples of payload.
Datagram(kind, payload) ==
  CASE kind = "short" ->
         SubSeq(PeerHeader(StreamName, payload), 1, VBAN_HEADER_SIZE - 1)
    [] kind = "bad_header" ->
         [PeerHeader(StreamName, payload) EXCEPT ![5] = 35]
           \o Pcm16Bytes(payload)
    [] kind = "other_stream" ->
         PeerHeader(<<120>>, payload) \o Pcm16Bytes(payload)
    [] kind = "ok" ->
         PeerHeader(StreamName, payload) \o Pcm16Bytes(payload)

\* What the receiver of the stream StreamName takes from each of them, as a
\* table <<kind, payload, taken>>.
TakenTable ==
  {<<kind, payload, RecvSamples(Datagram(kind, payload), StreamName)>> :
     kind \in DatagramKinds, payload \in Payloads}
Taken(kind, payload) ==
  (CHOOSE t \in TakenTable : t[1] = kind /\ t[2] = payload)[3]
\* input_event records read from the button devices (EV_SYN = 0,
\* KEY_VOLUMEUP = 115; value 0 release, 1 press, 2 auto-repeat).
Events == [type : {0, EvKey}, code : {115, KeyPower}, value : {0, 1, 2}]

Zeros(n) == [i \in 1..n |-> 0]

TotalPresses == LET RECURSIVE Sum(_)
                    Sum(k) == IF k = 0 THEN 0 ELSE presses[k] + Sum(k - 1)
                IN Sum(MaxSessions)

TotalReceived == LET RECURSIVE Sum(_)
                     Sum(k) == IF k = 0 THEN 0
                               ELSE frames_received[k] + Sum(k - 1)
                 IN Sum(MaxSessions)

\* The socket bound to VBAN_PORT is held by a receiver inside its loop: at
\* the loop condition ("loop"), inside recv_from ("waiting"), or between the
\* push of a datagram and its count ("counting").
Listening(s) == recv_pc[s] \in {"loop", "waiting", "counting"}
PortHeld == \E s \in Sessions : Listening(s)

\* The session is in its period loop.
RunningPcs == {"loop_top", "capture", "playback", "mix", "write", "stats"}

(***************************************************************************)
(* Initial state: main.rs has set running and called run_intercom.         *)
(***************************************************************************)
TbIdle ==
  /\ tb_capacity = 0
  /\ tb_samples = <<>>
  /\ tb_pc = "idle"
  /\ tb_data = <<>>
  /\ tb_count = 0
  /\ tb_ret = <<>>
  /\ tb_op = "new"
  /\ tb_before = <<>>
  /\ tb_next = 1
  /\ tb_delivered = <<>>

WireIdle ==
  /\ wire_op = "none"
  /\ wire_in = <<>>
  /\ wire_out = <<>>

\* No device call made in the period so far.
IoNone == [op |-> "none", res |-> "none", recoveries |-> 0]

\* What a device call of the period comes to: io_i16() fails ("io_err") and
\* readi / writei is not reached; or readi / writei answers frames, nothing
\* (readi only), or an error, which pcm.recover() then repairs or not.
ReadResults == {"io_err", "ok", "zero", "err_recovered", "err_fatal"}
WriteResults == {"io_err", "ok", "err_recovered", "err_fatal"}
IsErr(res) == res \in {"err_recovered", "err_fatal"}

\* recover_alsa: one pcm.recover(err, true), true when it returned Ok.
RecoverAlsaAlways(res) == TRUE
recover_alsa(res) == res = "err_recovered"

\* The device call op came to res: an error of readi / writei is followed
\* by one recover_alsa, a failed io_i16() by none.
IoOf(op, res) ==
  [op |-> op, res |-> res, recoveries |-> IF IsErr(res) THEN 1 ELSE 0]

LocalsInit ==
  /\ is_muted = TRUE
  /\ frames = 0
  /\ frame_counter = [hi |-> 0, lo |-> 0]
  /\ frames_sent = 0
  /\ samples_captured = 0
  /\ capture_stall_count = 0
  /\ last_capture_samples = 0
  /\ since_report = 0
  /\ sidetone_buf = <<>>
  /\ limiter = SessionLimiter
  /\ tx = <<>>
  /\ vban_samples = <<>>
  /\ playback_buf = Zeros(PlaybackLen)
  /\ playback_out = Zeros(PlaybackLen)

SysStart ==
  /\ running = TRUE
  /\ sup_pc = "loop_check"
  /\ sup_ret = "none"
  /\ session = 0
  /\ eng_pc = "idle"
  /\ inner_ret = "none"
  /\ io = IoNone
  /\ LocalsInit
  /\ muted = [s \in Sessions |-> TRUE]
  /\ mute_pc = [s \in Sessions |-> "none"]
  /\ presses = [s \in Sessions |-> 0]
  /\ recv_pc = [s \in Sessions |-> "none"]
  /\ playback_buffer = [s \in Sessions |-> <<>>]
  /\ frames_received = [s \in Sessions |-> 0]

\* The supervisor over several sessions (one datagram is accepted, a session
\* captures one sample, and no device call blocks for a tick).
Init ==
  /\ SysStart
  /\ TbIdle
  /\ WireIdle
  /\ budget = [sessions |-> MaxSessions, presses |-> 1, datagrams |-> 1,
               captured |-> 1, ticks |-> 0]

\* One session in depth.
SessionInit ==
  /\ SysStart
  /\ TbIdle
  /\ WireIdle
  /\ budget = [sessions |-> 1, presses |-> MaxPress,
               datagrams |-> MaxReceived, captured |-> MaxCaptured,
               ticks |-> ReportTicks]

\* The locals of run_intercom_inner as they are created (and dropped).
LocalsFresh ==
  /\ is_muted' = TRUE
  /\ frames' = 0
  /\ frame_counter' = [hi |-> 0, lo |-> 0]
  /\ frames_sent' = 0
  /\ samples_captured' = 0
  /\ capture_stall_count' = 0
  /\ last_capture_samples' = 0
  /\ since_report' = 0
  /\ sidetone_buf' = <<>>
  /\ limiter' = SessionLimiter
  /\ tx' = <<>>
  /\ vban_samples' = <<>>
  /\ playback_buf' = Zeros(PlaybackLen)
  /\ playback_out' = Zeros(PlaybackLen)

localvars == <<is_muted, frames, frame_counter, frames_sent, samples_captured,
               capture_stall_count, last_capture_samples, since_report,
               sidetone_buf, limiter, tx, vban_samples, playback_buf,
               playback_out>>

\* run_intercom_inner returns r; its locals are dropped.
EngReturn(r) ==
  /\ eng_pc' = "returned"
  /\ inner_ret' = r
  /\ LocalsFresh

(***************************************************************************)
(* main.rs: the stop signal.                                               *)
(***************************************************************************)
Stop ==
  /\ running
  /\ running' = FALSE
  /\ UNCHANGED <<sup_pc, sup_ret, session, engvars, mutevars, recvvars, tbvars, wirevars, budget>>

(***************************************************************************)
(* run_intercom: the supervisor.                                           *)
(***************************************************************************)
\* while running.load(): call run_intercom_inner, or leave the loop.
SupCheck ==
  /\ sup_pc = "loop_check"
  /\ IF running
       THEN /\ session < budget.sessions
            /\ session' = session + 1
            /\ sup_pc' = "in_session"
            /\ eng_pc' = "open_capture"
            /\ UNCHANGED sup_ret
       ELSE /\ sup_pc' = "returned"
            /\ sup_ret' = "Ok"
            /\ UNCHANGED <<session, eng_pc>>
  /\ UNCHANGED <<running, inner_ret, io, localvars, mutevars, recvvars, tbvars, wirevars, budget>>

\* match run_intercom_inner(..): Ok => break, Err => sleep 2 s. The match
\* consumes the returned value.
SessionFailedNever(r) == FALSE
SessionFailed(r) == r # "Ok"

SupSessionEnd ==
  /\ sup_pc = "in_session"
  /\ eng_pc = "returned"
  /\ eng_pc' = "idle"
  /\ inner_ret' = "none"
  /\ io' = IoNone
  /\ IF SessionFailed(inner_ret)
       THEN sup_pc' = "backoff" /\ UNCHANGED sup_ret
       ELSE sup_pc' = "returned" /\ sup_ret' = "Ok"
  /\ UNCHANGED <<running, session, localvars, mutevars, recvvars, tbvars, wirevars, budget>>

\* The 2 s sleep ends.
SupBackoff ==
  /\ sup_pc = "backoff"
  /\ sup_pc' = "loop_check"
  /\ UNCHANGED <<running, sup_ret, session, engvars, mutevars, recvvars, tbvars, wirevars, budget>>

(***************************************************************************)
(* run_intercom_inner: one session.                                        *)
(***************************************************************************)
\* open_alsa_capture() inside its retry loop: Ok breaks out; on Err the
\* stop flag is read, and the call returns Ok(()) or sleeps 2 s and retries.
OpenStopsOnErr(r) == ~r

EngOpenCapture(ok) ==
  /\ eng_pc = "open_capture"
  /\ IF ok THEN eng_pc' = "open_playback" /\ UNCHANGED <<inner_ret, localvars>>
     ELSE IF OpenStopsOnErr(running) THEN EngReturn("Ok")
     ELSE eng_pc' = "open_capture_sleep" /\ UNCHANGED <<inner_ret, localvars>>
  /\ UNCHANGED <<supvars, io, mutevars, recvvars, tbvars, wirevars, budget>>

EngOpenCaptureSleep ==
  /\ eng_pc = "open_capture_sleep"
  /\ eng_pc' = "open_capture"
  /\ UNCHANGED <<supvars, inner_ret, io, localvars, mutevars, recvvars, tbvars, wirevars, budget>>

\* open_alsa_playback() inside its retry loop.
EngOpenPlayback(ok) ==
  /\ eng_pc = "open_playback"
  /\ IF ok THEN eng_pc' = "setup" /\ UNCHANGED <<inner_ret, localvars>>
     ELSE IF OpenStopsOnErr(running) THEN EngReturn("Ok")
     ELSE eng_pc' = "open_playback_sleep" /\ UNCHANGED <<inner_ret, localvars>>
  /\ UNCHANGED <<supvars, io, mutevars, recvvars, tbvars, wirevars, budget>>

EngOpenPlaybackSleep ==
  /\ eng_pc = "open_playback_sleep"
  /\ eng_pc' = "open_playback"
  /\ UNCHANGED <<supvars, inner_ret, io, localvars, mutevars, recvvars, tbvars, wirevars, budget>>

\* Arc::new(AtomicBool::new(true)): the mute flag of a new session.
UnmutedAtStart == FALSE
MutedAtStart == TRUE

\* The session creates its mute flag (muted) and spawns the monitor thread.
EngSetup ==
  /\ eng_pc = "setup"
  /\ muted' = [muted EXCEPT ![session] = MutedAtStart]
  /\ mute_pc' = [mute_pc EXCEPT ![session] = "spawned"]
  /\ eng_pc' = "connect"
  /\ UNCHANGED <<supvars, inner_ret, io, localvars, presses, recvvars, tbvars,
                 wirevars, budget>>

\* The sender socket: bind and connect (which resolves target_host) may fail
\* (`?`). Then a new jitter buffer and counters, the receiver thread, the
\* limiter, the frame counter and the buffers, up to the period loop.
EngConnect(sock_ok) ==
  /\ eng_pc = "connect"
  /\ IF sock_ok
       THEN /\ recv_pc' = [recv_pc EXCEPT ![session] = "spawned"]
            /\ playback_buffer' = [playback_buffer EXCEPT ![session] = <<>>]
            /\ frames_received' = [frames_received EXCEPT ![session] = 0]
            /\ LocalsFresh
            /\ eng_pc' = "loop_top"
            /\ UNCHANGED inner_ret
       ELSE /\ EngReturn("ErrSocket")
            /\ UNCHANGED recvvars
  /\ UNCHANGED <<supvars, io, mutevars, tbvars, wirevars, budget>>

\* while running.load(): snapshot the mute flag, or return Ok(()).
EngLoopTop ==
  /\ eng_pc = "loop_top"
  /\ IF running
       THEN /\ is_muted' = muted[session]
            /\ eng_pc' = "capture"
            /\ UNCHANGED <<inner_ret, frames, frame_counter, frames_sent,
                           samples_captured, capture_stall_count,
                           last_capture_samples, since_report, sidetone_buf,
                           limiter, tx, vban_samples, playback_buf,
                           playback_out>>
       ELSE EngReturn("Ok")
  /\ UNCHANGED <<supvars, io, mutevars, recvvars, tbvars, wirevars, budget>>

\* readi returned Ok(frames) with frames > 0: count, reset the stall count,
\* and unless muted: sidetone, pre-clip, gain, limiter, packets.
CaptureOk(buf) ==
  LET vban == [i \in 1..Len(buf) |-> PreClipGain(buf[i])]
      lim == LimiterProcessBuffer(limiter, vban)
  IN /\ samples_captured + Len(buf) <= budget.captured
     /\ frames' = Len(buf)
     /\ samples_captured' = samples_captured + Len(buf)
     /\ capture_stall_count' = 0
     /\ IF CaptureProcesses(is_muted)
          THEN \E results \in [1..Len(Chunks(lim.out)) -> BOOLEAN] :
                 LET r == SendPeriod(lim.out, frame_counter, frames_sent,
                                     results, ChunkSize, StreamName)
                 IN /\ r.flow = "playback"
                    /\ sidetone_buf' = SidetoneWrite(sidetone_buf, buf)
                    /\ limiter' = lim.lim
                    /\ tx' = r.tx
                    /\ frame_counter' = r.frame_counter
                    /\ frames_sent' = r.frames_sent
          ELSE UNCHANGED <<sidetone_buf, limiter, tx, frame_counter,
                           frames_sent>>
     /\ eng_pc' = "playback"
     /\ UNCHANGED <<inner_ret, is_muted, last_capture_samples, vban_samples,
                    playback_buf, playback_out>>

\* readi returned Ok(0), or an error that recover_alsa recovered: the stall
\* count goes up, and more than 500 in a row end the session.
CaptureNone ==
  /\ IF StallExceeded(capture_stall_count + 1)
       THEN EngReturn("ErrUnresponsive")
       ELSE /\ capture_stall_count' = capture_stall_count + 1
            /\ frames' = 0
            /\ eng_pc' = "playback"
            /\ UNCHANGED <<inner_ret, is_muted, frame_counter, frames_sent,
                           samples_captured, last_capture_samples,
                           sidetone_buf, limiter, tx, vban_samples,
                           playback_buf, playback_out>>

\* Ticks a blocking readi or writei takes: none, part of a report interval,
\* or a whole one.
Ticks == 0..ReportTicks

\* The capture step of a period; dt ticks pass while readi blocks. When
\* capture.io_i16() fails the session returns that error (`?`). An error of
\* readi counts as a read without samples and is followed by one
\* recover_alsa: the session returns the error when that fails, and goes on
\* to the stall check when it succeeds.
EngCapture(res, buf, dt) ==
  /\ eng_pc = "capture"
  /\ dt <= budget.ticks
  /\ io' = IoOf("read", res)
  /\ CASE res = "io_err" -> EngReturn("ErrCaptureIo")
       [] res = "ok" ->
            /\ CaptureOk(buf)
            /\ since_report' = Min(ReportTicks, since_report + dt)
       [] res = "zero" \/ (IsErr(res) /\ recover_alsa(res)) ->
            /\ CaptureNone
            /\ IF StallExceeded(capture_stall_count + 1)
                 THEN TRUE
                 ELSE since_report' = Min(ReportTicks, since_report + dt)
       [] IsErr(res) /\ ~recover_alsa(res) -> EngReturn("ErrCapture")
  /\ UNCHANGED <<supvars, mutevars, recvvars, tbvars, wirevars, budget>>

\* playback_buffer.lock(): a Mutex is poisoned when a thread panicked while
\* it held the lock. push_samples and pop_samples, the only code run under
\* this lock, do not panic, so lock() returns Ok in every run.
LockPoisoned == FALSE

\* The playback step: under the lock of the jitter buffer up to one period
\* is popped (vec![] had the lock been poisoned); the lock is released.
EngPop ==
  /\ eng_pc = "playback"
  /\ IF LockPoisoned
       THEN vban_samples' = <<>> /\ UNCHANGED playback_buffer
       ELSE /\ vban_samples' =
                 PopReturned(PlaybackLen, playback_buffer[session])
            /\ playback_buffer' =
                 [playback_buffer EXCEPT
                    ![session] =
                      PopRemaining(PlaybackLen, playback_buffer[session])]
  /\ eng_pc' = "mix"
  /\ UNCHANGED <<supvars, inner_ret, io, is_muted, frames, frame_counter,
                 frames_sent, samples_captured, capture_stall_count,
                 last_capture_samples, since_report, sidetone_buf, limiter,
                 tx, playback_buf, playback_out, mutevars, recv_pc,
                 frames_received, tbvars, wirevars, budget>>

\* The mix loop: what was popped and the sidetone ring fill playback_buf.
EngMix ==
  /\ eng_pc = "mix"
  /\ LET mix == Mix(0, vban_samples, sidetone_buf, is_muted)
     IN /\ playback_buf' = mix.out
        /\ sidetone_buf' = mix.sidetone
  /\ eng_pc' = "write"
  /\ UNCHANGED <<supvars, inner_ret, io, is_muted, frames, frame_counter,
                 frames_sent, samples_captured, capture_stall_count,
                 last_capture_samples, since_report, limiter, tx,
                 vban_samples, playback_out, mutevars, recvvars, tbvars,
                 wirevars, budget>>

\* The write of the period; dt ticks pass while writei blocks. When
\* playback.io_i16() fails the session returns that error (`?`); else
\* playback_buf is handed to writei, and a write error that is not recovered
\* ends the session.
EngWrite(wres, dt) ==
  /\ eng_pc = "write"
  /\ dt <= budget.ticks
  /\ io' = IoOf("write", wres)
  /\ CASE wres = "io_err" -> EngReturn("ErrPlaybackIo")
       [] IsErr(wres) /\ ~recover_alsa(wres) -> EngReturn("ErrPlayback")
       [] OTHER ->
            /\ playback_out' = playback_buf
            /\ since_report' = Min(ReportTicks, since_report + dt)
            /\ eng_pc' = "stats"
            /\ UNCHANGED <<inner_ret, is_muted, frames, frame_counter,
                           frames_sent, samples_captured,
                           capture_stall_count, last_capture_samples,
                           sidetone_buf, limiter, tx, vban_samples,
                           playback_buf>>
  /\ UNCHANGED <<supvars, mutevars, recvvars, tbvars, wirevars, budget>>

\* Stats and watchdog, once the report interval has elapsed. The iteration
\* ends here: the period's snapshot, read result, packets, popped samples
\* and playback period are not read again (each is overwritten before its next use).
EngStats ==
  /\ eng_pc = "stats"
  /\ io' = IoNone
  /\ IF since_report >= ReportTicks
       THEN IF WatchdogStalled(samples_captured, last_capture_samples)
              THEN EngReturn("ErrStalled")
              ELSE /\ last_capture_samples' = samples_captured
                   /\ since_report' = 0
                   /\ eng_pc' = "loop_top"
                   /\ UNCHANGED inner_ret
       ELSE /\ eng_pc' = "loop_top"
            /\ UNCHANGED <<inner_ret, last_capture_samples, since_report>>
  /\ eng_pc' = "loop_top" =>
       /\ is_muted' = TRUE
       /\ frames' = 0
       /\ tx' = <<>>
       /\ vban_samples' = <<>>
       /\ playback_buf' = Zeros(PlaybackLen)
       /\ playback_out' = Zeros(PlaybackLen)
       /\ UNCHANGED <<frame_counter, frames_sent, samples_captured,
                      capture_stall_count, sidetone_buf, limiter>>
  /\ UNCHANGED <<supvars, mutevars, recvvars, tbvars, wirevars, budget>>

(***************************************************************************)
(* run_power_button_monitor: the mute controller of session s.             *)
(***************************************************************************)
\* find_power_buttons(): without a device the thread returns at once.
MuteStart(s, found) ==
  /\ mute_pc[s] = "spawned"
  /\ mute_pc' = [mute_pc EXCEPT ![s] = IF found THEN "loop" ELSE "exited"]
  /\ UNCHANGED <<supvars, engvars, muted, presses, recvvars, tbvars, wirevars, budget>>

\* Whether a loop whose condition is running.load() goes round again.
LoopContinuesAlways(r) == TRUE
LoopContinues(r) == r

\* `while running.load()` holds: a pass over the devices begins.
MutePass(s) ==
  /\ mute_pc[s] = "loop"
  /\ LoopContinues(running)
  /\ mute_pc' = [mute_pc EXCEPT ![s] = "reading"]
  /\ UNCHANGED <<supvars, engvars, muted, presses, recvvars, tbvars, wirevars, budget>>

\* Inside a pass the read of a device returns an input_event (n == 24): a
\* press edge toggles the flag. The stop flag is not read again before the
\* pass ends.
MuteEvent(s, ev) ==
  /\ mute_pc[s] = "reading"
  /\ IF IsPressEdge(ev)
       THEN /\ TotalPresses < budget.presses
            /\ muted' = [muted EXCEPT ![s] = ~muted[s]]
       ELSE UNCHANGED muted
  /\ presses' = [presses EXCEPT ![s] =
                   IF ev.type = EvKey /\ ev.code = KeyPower
                      /\ ev.value = PressValue
                     THEN presses[s] + 1 ELSE presses[s]]
  /\ UNCHANGED <<supvars, engvars, mute_pc, recvvars, tbvars, wirevars, budget>>

\* The remaining reads of the pass return nothing (n /= 24); the thread
\* sleeps 20 ms and comes back to the loop condition.
MuteSleep(s) ==
  /\ mute_pc[s] = "reading"
  /\ mute_pc' = [mute_pc EXCEPT ![s] = "loop"]
  /\ UNCHANGED <<supvars, engvars, muted, presses, recvvars, tbvars, wirevars, budget>>

\* The loop condition fails: the descriptors are closed, the thread ends.
MuteExit(s) ==
  /\ mute_pc[s] = "loop"
  /\ ~LoopContinues(running)
  /\ mute_pc' = [mute_pc EXCEPT ![s] = "exited"]
  /\ UNCHANGED <<supvars, engvars, muted, presses, recvvars, tbvars, wirevars, budget>>

(***************************************************************************)
(* run_receiver: the receiver of session s.                                *)
(***************************************************************************)
\* UdpSocket::bind(0.0.0.0:VBAN_PORT)?: fails while a receiver of this
\* program holds the port ("failed"), or for any other reason (ok = FALSE,
\* "refused": the port is held by another process); either way
\* run_receiver returns the error and the thread ends.
RecvBind(s, ok) ==
  /\ recv_pc[s] = "spawned"
  /\ recv_pc' = [recv_pc EXCEPT
                   ![s] = IF PortHeld THEN "failed"
                          ELSE IF ~ok THEN "refused" ELSE "loop"]
  /\ UNCHANGED <<supvars, engvars, mutevars, playback_buffer, frames_received,
                 tbvars, wirevars, budget>>

\* `while running.load()` holds: the receiver enters recv_from, which waits
\* up to 100 ms.
RecvWait(s) ==
  /\ recv_pc[s] = "loop"
  /\ LoopContinues(running)
  /\ recv_pc' = [recv_pc EXCEPT ![s] = "waiting"]
  /\ UNCHANGED <<supvars, engvars, mutevars, playback_buffer, frames_received,
                 tbvars, wirevars, budget>>

\* Datagrams pushed and not yet counted.
Uncounted == Cardinality({s \in Sessions : recv_pc[s] = "counting"})

\* recv_from returned a datagram: dropped unless accepted (continue), else
\* its decoded samples are pushed under the lock of the jitter buffer
\* (nothing is pushed had the lock been poisoned) and the lock is released.
\* The stop flag is not read again before the push.
RecvDatagram(s, kind, payload) ==
  /\ recv_pc[s] = "waiting"
  /\ LET taken == Taken(kind, payload)
     IN IF taken.some
          THEN /\ TotalReceived + Uncounted < budget.datagrams
               /\ playback_buffer' =
                    [playback_buffer EXCEPT
                       ![s] = IF LockPoisoned THEN playback_buffer[s]
                              ELSE push_samples(playback_buffer[s],
                                                taken.value, JitterCapacity)]
               /\ recv_pc' = [recv_pc EXCEPT ![s] = "counting"]
          ELSE /\ recv_pc' = [recv_pc EXCEPT ![s] = "loop"]
               /\ UNCHANGED playback_buffer
  /\ UNCHANGED <<supvars, engvars, mutevars, frames_received, tbvars,
                 wirevars, budget>>

\* frames_received.fetch_add(1), after the lock has been released.
RecvCount(s) ==
  /\ recv_pc[s] = "counting"
  /\ frames_received' = [frames_received EXCEPT ![s] = frames_received[s] + 1]
  /\ recv_pc' = [recv_pc EXCEPT ![s] = "loop"]
  /\ UNCHANGED <<supvars, engvars, mutevars, playback_buffer, tbvars,
                 wirevars, budget>>

\* recv_from timed out (WouldBlock) or failed otherwise.
RecvTimeout(s) ==
  /\ recv_pc[s] = "waiting"
  /\ recv_pc' = [recv_pc EXCEPT ![s] = "loop"]
  /\ UNCHANGED <<supvars, engvars, mutevars, playback_buffer, frames_received,
                 tbvars, wirevars, budget>>

\* The loop condition fails: run_receiver returns and drops the socket.
RecvExit(s) ==
  /\ recv_pc[s] = "loop"
  /\ ~LoopContinues(running)
  /\ recv_pc' = [recv_pc EXCEPT ![s] = "exited"]
  /\ UNCHANGED <<supvars, engvars, mutevars, playback_buffer, frames_received,
                 tbvars, wirevars, budget>>

Next ==
  \/ Stop
  \/ SupCheck
  \/ SupSessionEnd
  \/ SupBackoff
  \/ \E ok \in BOOLEAN : EngOpenCapture(ok)
  \/ EngOpenCaptureSleep
  \/ \E ok \in BOOLEAN : EngOpenPlayback(ok)
  \/ EngOpenPlaybackSleep
  \/ EngSetup
  \/ \E sock_ok \in BOOLEAN : EngConnect(sock_ok)
  \/ EngLoopTop
  \/ \E res \in ReadResults :
       \E buf \in CaptureBufsFor(res) : \E dt \in Ticks :
         EngCapture(res, buf, dt)
  \/ EngPop
  \/ EngMix
  \/ \E wres \in WriteResults : \E dt \in Ticks : EngWrite(wres, dt)
  \/ EngStats
  \/ \E s \in Sessions : \E found \in BOOLEAN : MuteStart(s, found)
  \/ \E s \in Sessions : MutePass(s)
  \/ \E s \in Sessions : \E ev \in Events : MuteEvent(s, ev)
  \/ \E s \in Sessions : MuteSleep(s)
  \/ \E s \in Sessions : MuteExit(s)
  \/ \E s \in Sessions : \E ok \in BOOLEAN : RecvBind(s, ok)
  \/ \E s \in Sessions : RecvWait(s)
  \/ \E s \in Sessions : \E kind \in DatagramKinds : \E payload \in Payloads :
       RecvDatagram(s, kind, payload)
  \/ \E s \in Sessions : RecvCount(s)
  \/ \E s \in Sessions : RecvTimeout(s)
  \/ \E s \in Sessions : RecvExit(s)

Spec == Init /\ [][Next]_vars

SessionSpec == SessionInit /\ [][Next]_vars

(***************************************************************************)
(* Shutdown: the same program with no press edge, one accepted datagram    *)
(* and no captured sample, and with every thread scheduled: each call of a *)
(* thread returns, so a thread that can take a step takes one.             *)
(***************************************************************************)
StopInit ==
  /\ SysStart
  /\ TbIdle
  /\ WireIdle
  /\ budget = [sessions |-> MaxSessions, presses |-> 0, datagrams |-> 1,
               captured |-> 0, ticks |-> 0]

Sup == SupCheck \/ SupSessionEnd \/ SupBackoff

Eng ==
  \/ \E ok \in BOOLEAN : EngOpenCapture(ok)
  \/ EngOpenCaptureSleep
  \/ \E ok \in BOOLEAN : EngOpenPlayback(ok)
  \/ EngOpenPlaybackSleep
  \/ EngSetup
  \/ \E sock_ok \in BOOLEAN : EngConnect(sock_ok)
  \/ EngLoopTop
  \/ \E res \in ReadResults :
       \E buf \in CaptureBufsFor(res) : \E dt \in Ticks :
         EngCapture(res, buf, dt)
  \/ EngPop
  \/ EngMix
  \/ \E wres \in WriteResults : \E dt \in Ticks : EngWrite(wres, dt)
  \/ EngStats

MuteThread(s) ==
  \/ \E found \in BOOLEAN : MuteStart(s, found)
  \/ MutePass(s)
  \/ MuteSleep(s)
  \/ MuteExit(s)

RecvThread(s) ==
  \/ \E ok \in BOOLEAN : RecvBind(s, ok)
  \/ RecvWait(s)
  \/ RecvCount(s)
  \/ RecvTimeout(s)
  \/ RecvExit(s)

Scheduling ==
  /\ WF_vars(Sup)
  /\ WF_vars(Eng)
  /\ \A s \in Sessions : WF_vars(MuteThread(s)) /\ WF_vars(RecvThread(s))

StopSpec == StopInit /\ [][Next]_vars /\ Scheduling

(***************************************************************************)
(* The jitter buffer on its own: TestableAudioBuffer driven by a pushing   *)
(* side (the receiver) and a popping side (the engine) under its mutex.    *)
(***************************************************************************)
\* The slices the pushing side hands over: fresh consecutive labels, so that
\* every sample in the buffer is told apart from every other one.
FreshSlice(n) == [i \in 1..n |-> tb_next + i - 1]

BufInit ==
  /\ tb_capacity \in 0..MaxCap
  /\ tb_samples = <<>>
  /\ tb_pc = "idle"
  /\ tb_data = <<>>
  /\ tb_count = 0
  /\ tb_ret = <<>>
  /\ tb_op = "new"
  /\ tb_before = <<>>
  /\ tb_next = 1
  /\ tb_delivered = <<>>
  /\ SysStart
  /\ budget = [sessions |-> 0, presses |-> 0, datagrams |-> 0]
  /\ WireIdle

\* push_samples is entered (by the receiver, holding the mutex).
PushCall(n) ==
  /\ tb_pc = "idle"
  /\ tb_next + n - 1 <= MaxVal
  /\ tb_pc' = "evict"
  /\ tb_data' = FreshSlice(n)
  /\ tb_before' = tb_samples
  /\ tb_op' = "push"
  /\ tb_next' = tb_next + n
  /\ UNCHANGED <<tb_samples, tb_capacity, tb_count, tb_ret, tb_delivered>>
  /\ UNCHANGED <<sysvars, wirevars>>

\* One iteration of the while loop: the condition holds, pop_front runs.
PushEvict ==
  /\ tb_pc = "evict"
  /\ PushMustEvict(tb_samples, tb_data, tb_capacity)
  /\ tb_samples' = PushEvictBody(tb_samples)
  /\ UNCHANGED <<tb_capacity, tb_pc, tb_data, tb_count, tb_ret, tb_op,
                 tb_before, tb_next, tb_delivered>>
  /\ UNCHANGED <<sysvars, wirevars>>

\* The loop condition fails: extend, return, release the mutex.
PushExtend ==
  /\ tb_pc = "evict"
  /\ ~PushMustEvict(tb_samples, tb_data, tb_capacity)
  /\ tb_samples' = tb_samples \o tb_data
  /\ tb_pc' = "idle"
  /\ UNCHANGED <<tb_capacity, tb_data, tb_count, tb_ret, tb_op, tb_before,
                 tb_next, tb_delivered>>
  /\ UNCHANGED <<sysvars, wirevars>>

\* pop_samples(count) (by the engine, holding the mutex: no push is under way).
Pop(count) ==
  /\ tb_pc = "idle"
  /\ tb_before' = tb_samples
  /\ tb_op' = "pop"
  /\ tb_count' = count
  /\ tb_ret' = PopReturned(count, tb_samples)
  /\ tb_samples' = PopRemaining(count, tb_samples)
  /\ tb_delivered' = tb_delivered \o PopReturned(count, tb_samples)
  /\ UNCHANGED <<tb_capacity, tb_pc, tb_data, tb_next>>
  /\ UNCHANGED <<sysvars, wirevars>>

BufNext ==
  \/ \E n \in 0..MaxData : PushCall(n)
  \/ PushEvict
  \/ PushExtend
  \/ \E count \in 0..MaxData : Pop(count)

BufSpec == BufInit /\ [][BufNext]_vars

(***************************************************************************)
(* The header functions of vban.rs called on their own, as its unit tests  *)
(* call them: new, then encode, then decode; decode on other buffers; the  *)
(* rate table in both directions.                                          *)
(***************************************************************************)
\* Stream names "a", "ab", ...: n distinct ASCII letters.
NameOf(n) == [i \in 1..n |-> 96 + i]
WireNames ==
  {NameOf(n) : n \in {0, 1, VBAN_STREAM_NAME_SIZE - 1, MaxNameLen}}
\* Every rate of the table, and rates that are not in it.
WireRates == {SAMPLE_RATES[i] : i \in 1..Len(SAMPLE_RATES)} \cup {0, 12345, 48001}
\* channels: u8
WireChannels == {1, 2, 255}
\* VbanCodec as u8
WireCodecs == {1, 5}
\* frame_counter: u32, as [hi, lo]
WireCounters == {[hi |-> 258, lo |-> 772], [hi |-> 65535, lo |-> 65535]}
\* samples_per_frame: usize
WireSamplesPerFrame == {0, 1, 256, 257}
\* Buffers that are no encoded header: cut short, magic damaged, protocol
\* bits set, a rate index past the end of the table, or longer than a header.
Mangles ==
  {[kind |-> "cut", at |-> k] : k \in {0, VBAN_HEADER_SIZE - 1}}
    \cup {[kind |-> "magic", at |-> k] : k \in {1, 4}}
    \cup {[kind |-> "protocol", at |-> b] : b \in {32, 255}}
    \cup {[kind |-> "rate", at |-> b] : b \in {Len(SAMPLE_RATES), 31}}
    \cup {[kind |-> "extend", at |-> k] : k \in 1..MaxExtra}

Mangle(data, m) ==
  CASE m.kind = "cut" -> SubSeq(data, 1, m.at)
    [] m.kind = "magic" -> [data EXCEPT ![m.at] = 0]
    [] m.kind = "protocol" -> [data EXCEPT ![5] = m.at]
    [] m.kind = "rate" -> [data EXCEPT ![5] = m.at]
    [] m.kind = "extend" -> data \o [i \in 1..m.at |-> 255]

WireInit ==
  /\ SysStart
  /\ TbIdle
  /\ WireIdle
  /\ budget = [sessions |-> 0, presses |-> 0, datagrams |-> 0]

\* VbanHeader::new(name, rate, channels, codec)
WireNew(name, rate, channels, codec) ==
  /\ wire_op = "none"
  /\ wire_op' = "new"
  /\ wire_in' = [name |-> name, sample_rate |-> rate, channels |-> channels,
                  codec |-> codec]
  /\ wire_out' = HeaderNew(name, rate, channels, codec)
  /\ UNCHANGED <<tbvars, sysvars>>

\* header.encode(samples_per_frame), after the caller has set the public
\* fields frame_counter and, when `set`, channels and codec to other bytes.
WireEncode(fc, samples_per_frame, set) ==
  /\ wire_op = "new"
  /\ wire_out.ok
  /\ LET made == [wire_out.value EXCEPT !.frame_counter = fc]
         h == IF set THEN [made EXCEPT !.channels = 255, !.codec = 200]
              ELSE made
     IN /\ wire_in' = [new |-> wire_in, written |-> set, h |-> h,
                       samples_per_frame |-> samples_per_frame]
        /\ wire_out' = encode(h, samples_per_frame)
  /\ wire_op' = "encode"
  /\ UNCHANGED <<tbvars, sysvars>>

\* VbanHeader::decode(&encoded)
WireDecode ==
  /\ wire_op = "encode"
  /\ wire_op' = "decode"
  /\ wire_in' = [from |-> wire_in, mangle |-> [kind |-> "none", at |-> 0],
                  data |-> wire_out]
  /\ wire_out' = decode(wire_out)
  /\ UNCHANGED <<tbvars, sysvars>>

\* VbanHeader::decode on a buffer that is no encoded header.
WireDecodeOther(m) ==
  /\ wire_op = "encode"
  /\ wire_op' = "decode"
  /\ wire_in' = [from |-> wire_in, mangle |-> m, data |-> Mangle(wire_out, m)]
  /\ wire_out' = decode(Mangle(wire_out, m))
  /\ UNCHANGED <<tbvars, sysvars>>

\* sample_rate_to_index(rate)
WireRateToIndex(rate) ==
  /\ wire_op = "none"
  /\ wire_op' = "sample_rate_to_index"
  /\ wire_in' = [rate |-> rate]
  /\ wire_out' = sample_rate_to_index(rate)
  /\ UNCHANGED <<tbvars, sysvars>>

\* header.sample_rate() of a header whose index byte is idx.
WireIndexToRate(idx) ==
  /\ wire_op = "none"
  /\ wire_op' = "sample_rate"
  /\ wire_in' = [index |-> idx]
  /\ wire_out' = sample_rate([sample_rate_index |-> idx])
  /\ UNCHANGED <<tbvars, sysvars>>

WireNext ==
  \/ \E name \in WireNames : \E rate \in WireRates :
       \E channels \in WireChannels : \E codec \in WireCodecs :
         WireNew(name, rate, channels, codec)
  \/ \E fc \in WireCounters : \E n \in WireSamplesPerFrame :
       \E set \in BOOLEAN : WireEncode(fc, n, set)
  \/ WireDecode
  \/ \E m \in Mangles : WireDecodeOther(m)
  \/ \E rate \in WireRates : WireRateToIndex(rate)
  \/ \E idx \in 0..31 : WireIndexToRate(idx)

WireSpec == WireInit /\ [][WireNext]_vars

(***************************************************************************)
(* The pure parts of the session, each applied alone: the mix of a playback *)
(* period, one pass of the receiver loop, and the packets of a capture      *)
(* period at the sizes of the source. wire_op names the part applied,       *)
(* wire_in its arguments and wire_out the result.                           *)
(***************************************************************************)
\* CHUNK_SIZE and PERIOD_SIZE (capture_buf holds PERIOD_SIZE frames).
CHUNK_SIZE == 128
PERIOD_SIZE == 256

\* Jitter-buffer samples of a period (fewer than a period on underrun), with
\* values whose gain-scaled product leaves the i16 range on either side.
MixVban == UNION {[1..n -> {-32768, 7, 3277}] : n \in 0..PlaybackLen}
\* Contents of the sidetone ring.
MixSidetone == UNION {[1..n -> {100, -2000}] : n \in 0..PeriodSize}

\* n processed samples, all different, of both signs.
Ramp(n) == [i \in 1..n |-> 100 * i - 12800]

\* Jitter buffers a datagram meets: empty, part full, full.
RecvBuffers == {<<>>, <<1, 2>>, [i \in 1..JitterCapacity |-> i % 32768]}
\* Datagrams beyond those of Datagram: Float32 payload (0.5, -1.0), a codec
\* byte that is neither PCM16 nor Float32, a packet of the period loop, a
\* PCM16 payload with an odd byte at the end, and a Float32 payload (2.0,
\* -2.0) with three bytes at the end.
RecvDatagrams ==
  {[kind |-> k, payload |-> p, data |-> Datagram(k, p)] :
     k \in DatagramKinds, p \in Payloads}
  \cup
  {[kind |-> "ok", payload |-> <<16383, -32767>>,
    data |-> [PeerHeader(StreamName, <<1>>) EXCEPT ![8] = CodecFloat32]
               \o <<0, 0, 0, 63, 0, 0, 128, 191>>],
   [kind |-> "ok", payload |-> <<-2, 258>>,
    data |-> [PeerHeader(StreamName, <<1>>) EXCEPT ![8] = 2]
               \o <<254, 255, 2, 1>>],
   [kind |-> "ok", payload |-> <<-300, -300>>,
    data |-> PacketBytes(PacketsOf(<<-300>>, [hi |-> 0, lo |-> 9], CHUNK_SIZE,
                                   StreamName)[1])],
   [kind |-> "ok", payload |-> <<7>>,
    data |-> PeerHeader(StreamName, <<7>>) \o <<7, 0, 9>>],
   [kind |-> "ok", payload |-> <<32767, -32768>>,
    data |-> [PeerHeader(StreamName, <<1>>) EXCEPT ![8] = CodecFloat32]
               \o <<0, 0, 0, 64, 0, 0, 0, 192, 1, 2, 3>>]}

PartsInit ==
  /\ SysStart
  /\ TbIdle
  /\ WireIdle
  /\ budget = [sessions |-> 0, presses |-> 0, datagrams |-> 0]

\* The mixing loop of one playback period.
PartsMix(vban, st, m) ==
  /\ wire_op = "none"
  /\ wire_op' = "mix"
  /\ wire_in' = [vban |-> vban, sidetone |-> st, is_muted |-> m]
  /\ wire_out' = Mix(0, vban, st, m)
  /\ UNCHANGED <<tbvars, sysvars>>

\* One pass of the receiver loop of the stream StreamName.
PartsReceive(buffer, received, d) ==
  /\ wire_op = "none"
  /\ wire_op' = "receive"
  /\ wire_in' = [buffer |-> buffer, frames_received |-> received,
                  kind |-> d.kind, payload |-> d.payload, data |-> d.data]
  /\ wire_out' = RecvHandle(buffer, received, d.data, StreamName,
                            JitterCapacity)
  /\ UNCHANGED <<tbvars, sysvars>>

\* The packets of a period of n processed samples, as datagrams.
PartsPacketize(n, fc) ==
  /\ wire_op = "none"
  /\ wire_op' = "packetize"
  /\ wire_in' = [samples |-> Ramp(n), frame_counter |-> fc]
  /\ wire_out' = LET pk == PacketsOf(Ramp(n), fc, CHUNK_SIZE, StreamName)
                 IN [k \in 1..Len(pk) |-> PacketBytes(pk[k])]
  /\ UNCHANGED <<tbvars, sysvars>>

\* Periods of a session: muted or not, 1, 129 or 256 processed samples,
\* every send succeeding, the first failing, or all failing.
SendOutcomes == {<<TRUE, TRUE>>, <<FALSE, TRUE>>, <<FALSE, FALSE>>}
PeriodInputs ==
  {[is_muted |-> m, samples |-> Ramp(n), results |-> r] :
     m \in BOOLEAN, n \in {1, CHUNK_SIZE + 1, PERIOD_SIZE}, r \in SendOutcomes}
\* The frame counter of a session at its start, and after 2^32 - 1 packets.
SessionCounters == {[hi |-> 0, lo |-> 0], [hi |-> 65535, lo |-> 65535]}

\* The loop over the chunks of one period.
PartsSend(p, fc, sent) ==
  /\ wire_op = "none"
  /\ wire_op' = "send"
  /\ wire_in' = [samples |-> p.samples, results |-> p.results,
                  frame_counter |-> fc, frames_sent |-> sent]
  /\ wire_out' = SendPeriod(p.samples, fc, sent, p.results, CHUNK_SIZE,
                            StreamName)
  /\ UNCHANGED <<tbvars, sysvars>>

\* The capture steps of consecutive periods.
PartsPeriods(periods, fc) ==
  /\ wire_op = "none"
  /\ wire_op' = "periods"
  /\ wire_in' = [periods |-> periods, frame_counter |-> fc]
  /\ wire_out' = SendPeriods(periods, fc, 0, CHUNK_SIZE, StreamName)
  /\ UNCHANGED <<tbvars, sysvars>>

\* Contents of the sidetone ring up to its capacity, and the raw samples of
\* a capture period.
RingContents == UNION {[1..n -> {100, -2000}] : n \in 0..SidetoneMax}
RawSamples == UNION {[1..n -> {5, -6}] : n \in 0..PeriodSize}

\* The sidetone write of a capture period.
PartsSidetoneWrite(buf, samples) ==
  /\ wire_op = "none"
  /\ wire_op' = "sidetone_write"
  /\ wire_in' = [sidetone |-> buf, samples |-> samples]
  /\ wire_out' = SidetoneWrite(buf, samples)
  /\ UNCHANGED <<tbvars, sysvars>>

\* Thresholds a limiter is created with (in units of 1/ThresholdDen): below
\* the clamp, the default 0.15, 0.5, and above the clamp.
LimiterThresholds == {0, LimiterThreshold, 5000, 20000}
\* Inputs of process: the i16 extremes, silence, and two values between.
LimiterInputs ==
  UNION {[1..n -> {-32768, -5000, 0, 200, 32767}] : n \in 0..MaxCalls}

\* PeakLimiter::new(threshold, 48000), then process for each input.
PartsLimiter(threshold, inputs) ==
  /\ wire_op = "none"
  /\ wire_op' = "limiter"
  /\ wire_in' = [threshold |-> threshold, inputs |-> inputs]
  /\ wire_out' = LimiterCalls(LimiterNew(threshold), inputs)
  /\ UNCHANGED <<tbvars, sysvars>>

\* reset() on the limiter the calls of process have left, then the same
\* calls once more (test_limiter_reset).
PartsLimiterReset ==
  /\ wire_op = "limiter"
  /\ wire_out # <<>>
  /\ wire_op' = "limiter_reset"
  /\ wire_in' = [limiter |-> wire_out[Len(wire_out)].lim,
                  inputs |-> wire_in.inputs]
  /\ wire_out' =
       LET fresh == LimiterReset(wire_out[Len(wire_out)].lim)
       IN [limiter |-> fresh, calls |-> LimiterCalls(fresh, wire_in.inputs)]
  /\ UNCHANGED <<tbvars, sysvars>>

\* Stream names a session is configured with: those of the header functions
\* and the default.
HeaderNames == WireNames \cup {StreamName}

\* The header the period loop writes for a chunk of c samples, next to the
\* one VbanHeader::new and encode build for the same stream, and what decode
\* and a receiver of the same stream make of the former.
PartsHeader(name, c, fc) ==
  /\ wire_op = "none"
  /\ wire_op' = "header"
  /\ wire_in' = [name |-> name, samples_per_frame |-> c, frame_counter |-> fc]
  /\ wire_out' =
       LET made == HeaderNew(name, 48000, 2, CodecPcm16).value
       IN [engine |-> EngineHeader(c, fc, name),
           new |-> made,
           codec |-> encode([made EXCEPT !.frame_counter = fc], c),
           decoded |-> decode(EngineHeader(c, fc, name)),
           accepted |-> RecvAccepts(EngineHeader(c, fc, name), name)]
  /\ UNCHANGED <<tbvars, sysvars>>

\* Configurations of the outbound chain: mic gain 0.5, 8.0 (the default)
\* and 12.0, limiter off or on, threshold 0.15 or 0.5.
OutboundConfigs ==
  {[mic_gain |-> g, limiter_enabled |-> e, limiter_threshold |-> t] :
     g \in {[num |-> 1, den |-> 2], [num |-> MicGain, den |-> 1],
            [num |-> 12, den |-> 1]},
     e \in BOOLEAN, t \in {LimiterThreshold, 5000}}
\* Captured periods: a short read and a longer one with the i16 extremes.
PeriodBufs == {<<32767, -5>>, <<100, -32768, 4001>>}
CapturedPeriods ==
  {[is_muted |-> m, buf |-> b] : m \in BOOLEAN, b \in PeriodBufs}

\* Two sessions that capture the same periods with the same mute history
\* under the configurations a and b.
PartsCapture(a, b, periods) ==
  /\ wire_op = "none"
  /\ wire_op' = "capture"
  /\ wire_in' = [a |-> a, b |-> b, periods |-> periods]
  /\ wire_out' = [a |-> RunPeriods(a, <<>>, LimiterOf(a), periods),
                  b |-> RunPeriods(b, <<>>, LimiterOf(b), periods)]
  /\ UNCHANGED <<tbvars, sysvars>>

\* Samples and gains of the mixer: the i16 extremes and values between; no
\* gain, the defaults, 100.0, and 49152.0.
MixerSamples == {-32768, -1, 0, 7, 32767}
MixerGains == {0, HeadphoneGain, SidetoneGain, 100, 49152}

\* One pass of the mixing loop, unmuted, under the gains of a configuration.
PartsMixSample(network, mono, hg, sg, checked) ==
  /\ wire_op = "none"
  /\ wire_op' = "mix_sample"
  /\ wire_in' = [network |-> network, sidetone |-> mono, headphone_gain |-> hg,
                  sidetone_gain |-> sg, overflow_checks |-> checked]
  /\ wire_out' = MixSampleBy(network, mono, hg, sg, checked)
  /\ UNCHANGED <<tbvars, sysvars>>

PartsNext ==
  \/ \E vban \in MixVban : \E st \in MixSidetone : \E m \in BOOLEAN :
       PartsMix(vban, st, m)
  \/ \E buffer \in RecvBuffers : \E received \in {0, 3} :
       \E d \in RecvDatagrams : PartsReceive(buffer, received, d)
  \/ \E n \in 1..PERIOD_SIZE : \E fc \in WireCounters : PartsPacketize(n, fc)
  \/ \E p \in PeriodInputs : \E fc \in SessionCounters : \E sent \in {0, 5} :
       PartsSend(p, fc, sent)
  \/ \E p1 \in PeriodInputs : \E p2 \in PeriodInputs :
       \E fc \in SessionCounters : PartsPeriods(<<p1, p2>>, fc)
  \/ \E buf \in RingContents : \E samples \in RawSamples :
       PartsSidetoneWrite(buf, samples)
  \/ \E threshold \in LimiterThresholds : \E inputs \in LimiterInputs :
       PartsLimiter(threshold, inputs)
  \/ PartsLimiterReset
  \/ \E name \in HeaderNames : \E c \in 1..CHUNK_SIZE :
       \E fc \in WireCounters \cup SessionCounters : PartsHeader(name, c, fc)
  \/ \E a \in OutboundConfigs : \E b \in OutboundConfigs :
       \E p1 \in CapturedPeriods : \E p2 \in CapturedPeriods :
         PartsCapture(a, b, <<p1, p2>>)
  \/ \E network \in MixerSamples : \E mono \in MixerSamples :
       \E hg \in MixerGains : \E sg \in MixerGains : \E checked \in BOOLEAN :
         PartsMixSample(network, mono, hg, sg, checked)

PartsSpec == PartsInit /\ [][PartsNext]_vars

(***************************************************************************)
(* Properties of the jitter buffer (checked under BufSpec).                *)
(***************************************************************************)
\* The last n elements of s.
LastN(s, n) == SubSeq(s, Len(s) - n + 1, Len(s))

\* C5: the number of buffered samples never exceeds the capacity fixed at
\* construction, in every state of every interleaving of pushes and pops
\* (the states inside a push_samples call included).
C5_LengthWithinCapacity == Len(tb_samples) <= tb_capacity

\* C5 witness: a push that had to evict has returned and left the buffer full.
C5_Witness ==
  /\ tb_op = "push" /\ tb_pc = "idle"
  /\ tb_capacity > 0
  /\ Len(tb_before) + Len(tb_data) > tb_capacity
  /\ Len(tb_samples) = tb_capacity

\* C6: push_samples terminates for every slice and every buffer state: each
\* pass through its while loop removes a sample, so the loop cannot run more
\* often than there are samples queued.
C6_PushAlwaysTerminates ==
  (tb_pc = "evict" /\ PushMustEvict(tb_samples, tb_data, tb_capacity))
    => Len(PushEvictBody(tb_samples)) < Len(tb_samples)

\* C7: a push of a slice D no longer than the capacity C onto contents B
\* leaves exactly the last min(C, |B|+|D|) elements of B followed by D.
C7_PushKeepsNewest ==
  (tb_op = "push" /\ tb_pc = "idle" /\ Len(tb_data) <= tb_capacity)
    => tb_samples = LastN(tb_before \o tb_data,
                          Min(tb_capacity, Len(tb_before) + Len(tb_data)))

\* C7 witness: capacity 5, [1,2,3,4,5] queued, [6,7,8] pushed: the buffer
\* holds [4,5,6,7,8].
C7_Witness ==
  /\ tb_op = "push" /\ tb_pc = "idle"
  /\ tb_capacity = 5
  /\ tb_before = <<1, 2, 3, 4, 5>>
  /\ tb_data = <<6, 7, 8>>
  /\ tb_samples = <<4, 5, 6, 7, 8>>

\* C8: pop_samples(count) returns the min(count, len) oldest samples in the
\* order they were pushed (labels ascend in push order), removes exactly
\* those and keeps the rest in order; on an empty buffer it returns nothing.
C8_PopOldestFirst ==
  tb_op = "pop" =>
    LET k == IF tb_count < Len(tb_before) THEN tb_count ELSE Len(tb_before)
    IN /\ Len(tb_ret) = k
       /\ \A i \in 1..k : tb_ret[i] = tb_before[i]
       /\ \A i \in 1..k : \A j \in 1..k : i < j => tb_ret[i] < tb_ret[j]
       /\ Len(tb_samples) = Len(tb_before) - k
       /\ \A i \in 1..Len(tb_samples) : tb_samples[i] = tb_before[k + i]
       /\ (tb_before = <<>> => tb_ret = <<>>)

\* C8 witness: a pop that asked for more than the two or more samples that
\* were buffered (an underrun) returned them all and left the buffer empty.
C8_Witness ==
  /\ tb_op = "pop"
  /\ Len(tb_before) >= 2
  /\ tb_count > Len(tb_before)
  /\ tb_ret = tb_before
  /\ tb_samples = <<>>

(***************************************************************************)
(* Properties of the supervisor, the session and its threads.              *)
(***************************************************************************)
InPeriod == eng_pc \in {"capture", "playback", "mix", "write", "stats"}

\* C1: every step of the supervisor is one of these: with the stop flag
\* unset its loop check starts the next session (after the first one that is
\* the check that follows the backoff of a failed session, any number of
\* times); a session that returned an error leads to the backoff and never
\* out of run_intercom; a session that returned Ok, or a loop check that
\* reads the stop flag, leads out of run_intercom with Ok and no further
\* session; run_intercom never returns anything but Ok.
C1_SupervisorRestarts ==
  [][ /\ sup_pc' # sup_pc =>
           \/ /\ sup_pc = "loop_check" /\ running
              /\ sup_pc' = "in_session" /\ session' = session + 1
              /\ eng_pc' = "open_capture"
           \/ /\ sup_pc = "loop_check" /\ ~running
              /\ sup_pc' = "returned" /\ sup_ret' = "Ok"
           \/ /\ sup_pc = "in_session" /\ eng_pc = "returned"
              /\ inner_ret \notin {"none", "Ok"}
              /\ sup_pc' = "backoff"
           \/ /\ sup_pc = "in_session" /\ eng_pc = "returned"
              /\ inner_ret = "Ok"
              /\ sup_pc' = "returned" /\ sup_ret' = "Ok"
           \/ /\ sup_pc = "backoff"
              /\ sup_pc' = "loop_check"
      /\ session' # session => (sup_pc = "loop_check" /\ running)
      /\ sup_pc = "returned" => session' = session
      /\ sup_ret' \in {"none", "Ok"}
    ]_vars

\* C1 witness: after a failed session and the backoff, with the stop flag
\* unset, a further session is in its period loop.
C1_Witness ==
  /\ running
  /\ session >= 2
  /\ sup_pc = "in_session"
  /\ InPeriod

\* C2: while a session is in its period loop and the stop flag is unset, the
\* receiver that session started holds the socket on the service port as
\* soon as it has attempted its bind, unless another process has the port.
C2_SessionReceiverHoldsPort ==
  (running /\ session >= 1 /\ eng_pc \in RunningPcs
     /\ recv_pc[session] \notin {"spawned", "refused"})
    => Listening(session)

\* C3: at the report after an interval without a captured sample the session
\* returns the stall error, and never goes on; the stall count never stays
\* above the limit, the read that takes it there ends the session, and a
\* successful non-empty read sets it to 0; the supervisor answers either
\* error with the backoff (from which C1 leads to the next session).
C3_StalledCaptureFails ==
  [][ /\ ( /\ eng_pc = "stats" /\ eng_pc' # "stats"
           /\ since_report >= ReportTicks
           /\ samples_captured = last_capture_samples )
          => (eng_pc' = "returned" /\ inner_ret' = "ErrStalled")
      /\ ( /\ eng_pc = "capture" /\ eng_pc' # "capture"
           /\ frames' > 0 )
          => (eng_pc' = "playback" /\ capture_stall_count' = 0)
      /\ ( /\ eng_pc = "capture" /\ eng_pc' = "playback"
           /\ frames' = 0 )
          => /\ capture_stall_count' = capture_stall_count + 1
             /\ capture_stall_count' <= StallLimit
             /\ samples_captured' = samples_captured
      /\ ( /\ eng_pc = "capture" /\ eng_pc' = "returned"
           /\ inner_ret' \notin {"ErrCapture", "ErrCaptureIo"} )
          => /\ capture_stall_count = StallLimit
             /\ inner_ret' = "ErrUnresponsive"
      /\ capture_stall_count' <= StallLimit
      /\ ( /\ inner_ret \in {"ErrStalled", "ErrUnresponsive"}
           /\ sup_pc' # sup_pc )
          => sup_pc' = "backoff"
    ]_vars

\* C3 witness: the watchdog has ended a session.
C3_Witness ==
  /\ eng_pc = "returned"
  /\ inner_ret = "ErrStalled"

\* The program has come to rest: run_intercom has returned and no thread
\* is left that has not ended.
Terminated ==
  /\ sup_pc = "returned"
  /\ eng_pc = "idle"
  /\ \A s \in Sessions : /\ mute_pc[s] \in {"none", "exited"}
                          /\ recv_pc[s] \in {"none", "failed", "refused",
                                              "exited"}

\* C4: once the stop flag is cleared, every loop that reads it leaves: the
\* period loop returns Ok at its next check, an open retry loop whose open
\* fails returns Ok and does not sleep again, the supervisor starts no
\* session and sleeps no more than the backoff it may be in, the mute
\* controller and the receivers begin no further pass of their loops (the
\* pass they are in ends, and the loop is left at its next check); and with
\* every thread scheduled the whole program comes to rest.
C4_CooperativeCancellation ==
  /\ [][ ~running =>
           /\ (eng_pc = "loop_top" /\ eng_pc' # "loop_top")
                => (eng_pc' = "returned" /\ inner_ret' = "Ok")
           /\ (eng_pc = "open_capture" /\ eng_pc' # "open_capture")
                => \/ eng_pc' = "open_playback"
                   \/ eng_pc' = "returned" /\ inner_ret' = "Ok"
           /\ (eng_pc = "open_playback" /\ eng_pc' # "open_playback")
                => \/ eng_pc' = "setup"
                   \/ eng_pc' = "returned" /\ inner_ret' = "Ok"
           /\ session' = session
           /\ sup_pc' # sup_pc =>
                \/ sup_pc = "loop_check" /\ sup_pc' = "returned"
                \/ sup_pc = "in_session" /\ eng_pc = "returned"
                \/ sup_pc = "backoff" /\ sup_pc' = "loop_check"
           /\ \A s \in Sessions :
                /\ mute_pc[s] = "loop" => mute_pc'[s] \in {"loop", "exited"}
                /\ mute_pc[s] = "reading"
                     => mute_pc'[s] \in {"reading", "loop"}
                /\ recv_pc[s] = "loop" => recv_pc'[s] \in {"loop", "exited"}
                /\ recv_pc[s] = "waiting"
                     => recv_pc'[s] \in {"waiting", "counting", "loop"}
                /\ recv_pc[s] = "counting"
                     => recv_pc'[s] \in {"counting", "loop"}
      ]_vars
  /\ (~running ~> Terminated)

\* C4 witness: the stop flag was cleared while the second session was in its
\* period loop with both of its threads in their loops; the session has
\* returned Ok and every thread has ended.
C4_Witness ==
  /\ ~running
  /\ session >= 2
  /\ Terminated
  /\ sup_ret = "Ok"
  /\ mute_pc[session] = "exited"
  /\ recv_pc[1] = "exited"

\* C9: the mute flag of a session is muted iff the number of presses of the
\* designated key (type EV_KEY, code KEY_POWER, value 1) its controller has
\* read is even: muted at the start, flipped once by each press, and changed
\* by nothing else.
C9_MuteFlagParity ==
  \A s \in Sessions : muted[s] = (presses[s] % 2 = 0)

\* C9 witness: two presses have been read and the flag is muted again.
C9_Witness ==
  /\ session = 1
  /\ presses[1] = 2
  /\ muted[1]
  /\ mute_pc[1] = "loop"

\* C10: through a period whose snapshot of the mute flag is muted no packet
\* is built, the frame counter, the sent counter, the sidetone ring and the
\* limiter are unchanged, and the captured-sample counter goes up by the
\* frames the read returned.
C10_MutedPeriod ==
  [][ (InPeriod /\ is_muted /\ eng_pc' \in RunningPcs) =>
        /\ tx = <<>> /\ tx' = <<>>
        /\ frame_counter' = frame_counter
        /\ frames_sent' = frames_sent
        /\ sidetone_buf' = sidetone_buf
        /\ limiter' = limiter
        /\ samples_captured' =
             samples_captured
               + (IF eng_pc = "capture" /\ eng_pc' = "playback"
                    THEN frames' ELSE 0)
    ]_vars

\* C10 witness: a muted period in which frames were read, in a session that
\* had sent packets and filled the look-ahead buffer of the limiter before.
C10_Witness ==
  /\ eng_pc = "playback"
  /\ is_muted
  /\ frames > 0
  /\ frames_sent > 0
  /\ samples_captured > frames

\* C12 (as stated): the mute flag with which a session after the first
\* starts has the value that the flag of the session before it has at that
\* moment.
C12_MuteFlagPersists ==
  [][ (eng_pc = "setup" /\ eng_pc' = "connect" /\ session > 1)
        => muted'[session] = muted[session - 1]
    ]_vars

\* C13 (as stated): an error of the capture read or of the playback write is
\* followed by one recovery; after a recovered read error the playback step
\* of the period is next, after a recovered write error the statistics step;
\* after a failed recovery the session has returned the device error, with
\* no packet sent and no period written in that step.
C13_RecoveredStaysRunning ==
  [][ /\ IsErr(io'.res) => io'.recoveries = 1
      /\ (eng_pc = "capture" /\ eng_pc' # "capture"
            /\ io'.res = "err_recovered")
          => eng_pc' = "playback"
      /\ (eng_pc = "write" /\ eng_pc' # "write"
            /\ io'.res = "err_recovered")
          => eng_pc' = "stats"
      /\ (eng_pc \in {"capture", "write"} /\ eng_pc' # eng_pc
            /\ io'.res = "err_fatal")
          => /\ eng_pc' = "returned"
             /\ inner_ret' = (IF io'.op = "read" THEN "ErrCapture"
                                                 ELSE "ErrPlayback")
             /\ tx' = <<>>
             /\ playback_out' = Zeros(PlaybackLen)
    ]_vars

\* C13 (amended): as above, except that a recovered read error counts as a
\* read without samples: when the stall count stood at the limit the session
\* returns the unresponsive error without a playback step, and otherwise the
\* count goes up by one and the playback step is next. The errors meant are
\* those of readi and writei: when io_i16() fails before the read or the
\* write, the session returns that error with no recovery attempted.
C13_DeviceErrorRecovery ==
  [][ /\ IsErr(io'.res) => io'.recoveries = 1
      /\ (eng_pc \in {"capture", "write"} /\ eng_pc' # eng_pc
            /\ io'.res = "io_err")
          => /\ io'.recoveries = 0
             /\ eng_pc' = "returned"
             /\ inner_ret' = (IF io'.op = "read" THEN "ErrCaptureIo"
                                                 ELSE "ErrPlaybackIo")
             /\ tx' = <<>>
             /\ playback_out' = Zeros(PlaybackLen)
      /\ (eng_pc = "capture" /\ eng_pc' # "capture"
            /\ io'.res = "err_recovered")
          => IF capture_stall_count >= StallLimit
               THEN /\ eng_pc' = "returned"
                    /\ inner_ret' = "ErrUnresponsive"
                    /\ tx' = <<>>
                    /\ playback_out' = Zeros(PlaybackLen)
               ELSE /\ eng_pc' = "playback"
                    /\ capture_stall_count' = capture_stall_count + 1
      /\ (eng_pc = "write" /\ eng_pc' # "write"
            /\ io'.res = "err_recovered")
          => eng_pc' = "stats"
      /\ (eng_pc \in {"capture", "write"} /\ eng_pc' # eng_pc
            /\ io'.res = "err_fatal")
          => /\ eng_pc' = "returned"
             /\ inner_ret' = (IF io'.op = "read" THEN "ErrCapture"
                                                 ELSE "ErrPlayback")
             /\ tx' = <<>>
             /\ playback_out' = Zeros(PlaybackLen)
    ]_vars

\* C13 witness: the write of a period was recovered after its read had been
\* recovered too (the stall count shows the read without samples), in a
\* session that had captured samples before.
C13_Witness ==
  /\ eng_pc = "stats"
  /\ io = IoOf("write", "err_recovered")
  /\ frames = 0
  /\ capture_stall_count > 0
  /\ samples_captured > 0

\* C23: whatever the jitter buffer of the session holds, the playback step
\* of a period can be taken, what it popped can be mixed and the period
\* mixed can be written; the pop takes what the buffer held up to one
\* period and leaves the rest; the period mixed is PlaybackLen samples
\* long and is the mix there would be had the popped samples been followed
\* by zeros; and when the write returns (with Ok or with a recovered error)
\* the period handed to the device is that period, whatever the receiver
\* has pushed since the pop.
C23_PlaybackNeverWaits ==
  /\ [](eng_pc = "playback" => ENABLED EngPop)
  /\ [](eng_pc = "mix" => ENABLED EngMix)
  /\ [](eng_pc = "write" => ENABLED EngWrite("ok", 0))
  /\ [][ /\ (eng_pc = "playback" /\ eng_pc' # "playback") =>
             LET held == playback_buffer[session]
                 popped == SubSeq(held, 1, Min(PlaybackLen, Len(held)))
             IN /\ eng_pc' = "mix"
                /\ vban_samples' = popped
                /\ playback_buffer'[session]
                     = SubSeq(held, Len(popped) + 1, Len(held))
         /\ (eng_pc = "mix" /\ eng_pc' # "mix") =>
             LET padded ==
                   vban_samples \o Zeros(PlaybackLen - Len(vban_samples))
             IN /\ eng_pc' = "write"
                /\ Len(playback_buf') = PlaybackLen
                /\ playback_buf' = Mix(0, padded, sidetone_buf, is_muted).out
         /\ (eng_pc = "write" /\ eng_pc' = "stats") =>
             /\ playback_out' = playback_buf
             /\ playback_buf' = playback_buf
       ]_vars

\* C23 witness: a period was written for which the jitter buffer held fewer
\* samples than a period, none of them 0: the samples it held are in the
\* period and silence follows them.
C23_Witness ==
  /\ eng_pc = "stats"
  /\ is_muted
  /\ frames_received[session] > 0
  /\ playback_buffer[session] = <<>>
  /\ playback_out[1] # 0
  /\ playback_out[PlaybackLen] = 0

\* The session is opening its devices.
OpenPcs == {"open_capture", "open_capture_sleep", "open_playback",
            "open_playback_sleep"}

\* C29 (as stated): a session that is opening its devices comes out of the
\* open retry loops: every thread being scheduled, it opens both devices or
\* it ends.
C29_OpenRetriesBounded == (eng_pc \in OpenPcs) ~> (eng_pc \notin OpenPcs)

\* The mute controller of session s found no button device and returned
\* (a controller that has a device leaves its loop only once the stop flag
\* is cleared).
NoSource(s) == running /\ mute_pc[s] = "exited"

\* C30: the return of a mute controller that found no device changes
\* nothing of the session or the supervisor; its mute flag is set from the
\* session's setup on; and while the session is in its period loop no packet
\* has been built or counted, the sidetone ring is empty, and every period
\* written is the clamped, gain-scaled network samples alone (zeros past
\* what the jitter buffer held).
C30_NoInputSource ==
  /\ [](\A s \in Sessions :
          (mute_pc[s] = "spawned" \/ NoSource(s))
            => (muted[s] /\ presses[s] = 0))
  /\ []((session > 0 /\ NoSource(session) /\ eng_pc \in RunningPcs)
          => (tx = <<>> /\ frames_sent = 0 /\ sidetone_buf = <<>>
              /\ frame_counter = [hi |-> 0, lo |-> 0]))
  /\ [][ /\ \A s \in Sessions :
             (mute_pc[s] = "spawned" /\ mute_pc'[s] = "exited")
               => UNCHANGED <<supvars, engvars, recvvars>>
         /\ (session > 0 /\ NoSource(session)
              /\ eng_pc = "write" /\ eng_pc' = "stats")
               => playback_out' = playback_buf
         /\ (session > 0 /\ NoSource(session)
              /\ eng_pc = "playback" /\ eng_pc' = "mix")
               => vban_samples' =
                    SubSeq(playback_buffer[session], 1,
                           Min(PlaybackLen, Len(playback_buffer[session])))
         /\ (session > 0 /\ NoSource(session)
              /\ eng_pc = "mix" /\ eng_pc' = "write")
               => \A i \in 1..PlaybackLen :
                    playback_buf'[i] =
                      Clamp((IF i <= Len(vban_samples)
                               THEN vban_samples[i] ELSE 0)
                              * HeadphoneGain, -32768, 32767)
       ]_vars

\* C30 witness: a session whose mute controller found no device has
\* captured samples and written a period with network audio in it.
C30_Witness ==
  /\ session = 1
  /\ NoSource(1)
  /\ eng_pc = "stats"
  /\ samples_captured > 0
  /\ frames_received[1] > 0
  /\ playback_out[1] # 0
  /\ frames_sent = 0

\* A thread that was spawned and has not ended.
MuteAlive(s) == mute_pc[s] \in {"spawned", "loop", "reading"}
RecvAlive(s) == recv_pc[s] \in {"spawned", "loop", "waiting", "counting"}

\* C31: at any time at most one receiver thread and at most one mute
\* thread are alive, and once a session has started its own threads the
\* threads of every earlier session have ended.
C31_ThreadPopulation ==
  /\ Cardinality({s \in Sessions : RecvAlive(s)}) <= 1
  /\ Cardinality({s \in Sessions : MuteAlive(s)}) <= 1
  /\ \A s \in Sessions :
       (s < session /\ mute_pc[session] # "none")
         => (~MuteAlive(s) /\ ~RecvAlive(s))

(***************************************************************************)
(* Properties of the VBAN header (checked under WireSpec).                 *)
(***************************************************************************)
\* A decode of what encode returned has completed.
RoundTripDone == wire_op = "decode" /\ wire_in.mangle.kind = "none"

InTable(rate) == \E i \in 1..Len(SAMPLE_RATES) : SAMPLE_RATES[i] = rate

\* C14: for a name of at most 15 ASCII characters, every rate of the table,
\* every codec byte, every frame counter and every samples_per_frame
\* argument, decode(encode(h)) succeeds and gives back the sample rate, the
\* stream name, the frame counter and the codec byte.
C14_HeaderRoundTrip ==
  (RoundTripDone /\ Len(wire_in.from.new.name) <= VBAN_STREAM_NAME_SIZE - 1)
    => /\ wire_out.ok
       /\ sample_rate(wire_out.value) = wire_in.from.new.sample_rate
       /\ stream_name_str(wire_out.value) = wire_in.from.new.name
       /\ wire_out.value.stream_name = wire_in.from.h.stream_name
       /\ wire_out.value.frame_counter = wire_in.from.h.frame_counter
       /\ wire_out.value.codec = wire_in.from.h.codec
       /\ ~wire_in.from.written
            => wire_out.value.codec = wire_in.from.new.codec

\* C14 witness: the round trip of a 15-character name at the last rate of
\* the table with a frame counter of four different bytes.
C14_Witness ==
  /\ RoundTripDone
  /\ Len(wire_in.from.new.name) = VBAN_STREAM_NAME_SIZE - 1
  /\ wire_in.from.new.sample_rate = 352800
  /\ wire_in.from.h.frame_counter = [hi |-> 258, lo |-> 772]
  /\ wire_in.from.samples_per_frame = 257
  /\ wire_out.ok
  /\ wire_out.value.frame_counter = [hi |-> 258, lo |-> 772]

\* C15: a header of n channels, 1 <= n <= 256, carries n - 1 in byte 6 and
\* reports n channels after encode and decode (new stores its argument less
\* one; the stored byte w stands for n = w + 1 channels).
C15_ChannelCountRoundTrip ==
  RoundTripDone
    => /\ ~wire_in.from.written
            => wire_in.from.h.channels = wire_in.from.new.channels - 1
       /\ wire_in.data[7] = wire_in.from.h.channels
       /\ wire_out.ok
       /\ num_channels(wire_out.value) = wire_in.from.h.channels + 1

\* C16: decode returns an error for a buffer shorter than 28 bytes, for one
\* whose first four bytes are not the magic and for one whose byte 4 has a
\* bit of its top three set; it succeeds on every other buffer, and then
\* returns what it returns on the first 28 bytes alone.
C16_DecodeRejects ==
  wire_op = "decode" =>
    LET data == wire_in.data
        rejected == \/ Len(data) < 28
                    \/ <<data[1], data[2], data[3], data[4]>> # <<86, 66, 65, 78>>
                    \/ data[5] >= 32
    IN /\ wire_out.ok = ~rejected
       /\ wire_out.ok => wire_out = decode(SubSeq(data, 1, 28))
       /\ wire_out.ok => wire_out.value.stream_name = SubSeq(data, 9, 24)

\* C16 witness: a buffer with the magic and a protocol bit set was rejected.
C16_Witness ==
  /\ wire_op = "decode"
  /\ wire_in.mangle.kind = "protocol"
  /\ ~wire_out.ok
  /\ wire_out.err = "Not a VBAN audio packet"

\* C17: for 1 <= n <= 256, encode(n) returns 28 bytes: the magic, the rate
\* index below 32, n - 1, channels - 1 as stored, the codec byte, the name
\* padded with zeros, the frame counter least significant byte first; and
\* its decode reports n samples per frame.
C17_EncodeLayout ==
  (RoundTripDone /\ wire_in.from.samples_per_frame \in 1..256) =>
    LET data == wire_in.data
        h == wire_in.from.h
        name == wire_in.from.new.name
    IN /\ Len(data) = 28
       /\ SubSeq(data, 1, 4) = <<86, 66, 65, 78>>
       /\ data[5] = h.sample_rate_index /\ data[5] < 32
       /\ SAMPLE_RATES[data[5] + 1] = wire_in.from.new.sample_rate
       /\ data[6] = wire_in.from.samples_per_frame - 1
       /\ data[7] = h.channels
       /\ data[8] = h.codec
       /\ \A i \in 1..16 :
            data[8 + i] = IF i <= Len(name) /\ i <= 15 THEN name[i] ELSE 0
       /\ data[25] + 256 * data[26] = h.frame_counter.lo
       /\ data[27] + 256 * data[28] = h.frame_counter.hi
       /\ wire_out.ok
       /\ num_samples(wire_out.value) = wire_in.from.samples_per_frame

\* C17 witness: encode(256) put 255 into byte 5 and the decode reports 256.
C17_Witness ==
  /\ RoundTripDone
  /\ wire_in.from.samples_per_frame = 256
  /\ wire_in.data[6] = 255
  /\ wire_in.from.new.name = NameOf(1)
  /\ num_samples(wire_out.value) = 256

\* C18: the table has no entry twice; sample_rate_to_index(r) is the index
\* of r in the table when r is in it, and none otherwise; sample_rate() of
\* an index 0..19 is the rate that sample_rate_to_index maps back to that
\* index; VbanHeader::new with a rate outside the table returns the
\* 'Unsupported sample rate' error and no header.
C18_SampleRateTable ==
  /\ Len(SAMPLE_RATES) = 20
  /\ \A i, j \in 1..Len(SAMPLE_RATES) :
       SAMPLE_RATES[i] = SAMPLE_RATES[j] => i = j
  /\ wire_op = "sample_rate_to_index" =>
       /\ wire_out.some = InTable(wire_in.rate)
       /\ wire_out.some =>
            /\ wire_out.value \in 0..19
            /\ SAMPLE_RATES[wire_out.value + 1] = wire_in.rate
            /\ sample_rate([sample_rate_index |-> wire_out.value]) = wire_in.rate
  /\ (wire_op = "sample_rate" /\ wire_in.index \in 0..19) =>
       /\ wire_out = SAMPLE_RATES[wire_in.index + 1]
       /\ sample_rate_to_index(wire_out) = Some(wire_in.index)
  /\ wire_op = "new" =>
       /\ wire_out.ok = InTable(wire_in.sample_rate)
       /\ ~wire_out.ok => wire_out = Err("Unsupported sample rate")
       /\ wire_out.ok =>
            SAMPLE_RATES[wire_out.value.sample_rate_index + 1]
              = wire_in.sample_rate

\* C18 witness: VbanHeader::new was refused for the rate 12345.
C18_Witness ==
  /\ wire_op = "new"
  /\ wire_in.sample_rate = 12345
  /\ wire_out = Err("Unsupported sample rate")

(***************************************************************************)
(* Properties of the pure parts of the session (checked under PartsSpec).  *)
(***************************************************************************)
\* C11: the mix of a period whose snapshot is muted: every playback sample is
\* the network sample at its index (0 past the end of what the jitter buffer
\* returned) times the headphone gain, clamped to i16, and the sidetone ring
\* comes out as it went in.
C11_MutedMix ==
  (wire_op = "mix" /\ wire_in.is_muted) =>
    /\ Len(wire_out.out) = PlaybackLen
    /\ \A i \in 1..PlaybackLen :
         wire_out.out[i] =
           Clamp((IF i <= Len(wire_in.vban) THEN wire_in.vban[i] ELSE 0)
                   * HeadphoneGain, -32768, 32767)
    /\ wire_out.sidetone = wire_in.sidetone

\* C11 witness: a muted mix with a filled sidetone ring and network samples
\* that clamp on both sides and one that does not.
C11_Witness ==
  /\ wire_op = "mix"
  /\ wire_in.is_muted
  /\ wire_in.sidetone = <<100, -2000>>
  /\ wire_in.vban = <<-32768, 7, 3277>>
  /\ SubSeq(wire_out.out, 1, 4) = <<-32768, 70, 32767, 0>>

\* C19: a datagram shorter than the header, one whose header does not
\* decode, and one of another stream leave the jitter buffer and the
\* received counter as they were; every other datagram adds 1 to the counter
\* and appends its samples (the oldest samples leave a full buffer); after
\* either the receiver loop goes on.
C19_ReceiverRejection ==
  wire_op = "receive" =>
    /\ wire_out.flow = "next"
    /\ IF \/ Len(wire_in.data) < VBAN_HEADER_SIZE
          \/ ~decode(wire_in.data).ok
          \/ stream_name_str(decode(wire_in.data).value) # StreamName
         THEN /\ wire_out.buffer = wire_in.buffer
              /\ wire_out.frames_received = wire_in.frames_received
         ELSE /\ wire_out.frames_received = wire_in.frames_received + 1
              /\ wire_out.buffer =
                   LastN(wire_in.buffer \o wire_in.payload,
                         Min(JitterCapacity,
                             Len(wire_in.buffer) + Len(wire_in.payload)))

\* C19 witness: a datagram of another stream met a part-full buffer and
\* left it and the counter alone.
C19_Witness ==
  /\ wire_op = "receive"
  /\ wire_in.kind = "other_stream"
  /\ wire_in.payload # <<>>
  /\ Len(wire_in.data) > VBAN_HEADER_SIZE
  /\ wire_in.buffer = <<1, 2>>
  /\ wire_out.buffer = <<1, 2>>
  /\ wire_out.frames_received = 3

\* The left and the right samples of a PCM16 stereo payload.
Lefts(bytes) ==
  LET x == Pcm16Samples(bytes) IN [i \in 1..(Len(x) \div 2) |-> x[2 * i - 1]]
Rights(bytes) ==
  LET x == Pcm16Samples(bytes) IN [i \in 1..(Len(x) \div 2) |-> x[2 * i]]

\* C20: a period of n processed samples, 1 <= n <= 256, leaves as
\* ceil(n / 128) datagrams; the k-th carries the samples from 128 (k - 1) + 1
\* on, c of them (128, or what is left), has c - 1 in byte 5, is 28 + 4 c
\* bytes long, holds each sample twice (left = right), and carries the frame
\* counter k - 1 steps on from the period's first.
C20_Packetization ==
  wire_op = "packetize" =>
    LET n == Len(wire_in.samples)
        count == (n + CHUNK_SIZE - 1) \div CHUNK_SIZE
    IN /\ Len(wire_out) = count
       /\ \A k \in 1..count :
            LET c == Min(CHUNK_SIZE, n - CHUNK_SIZE * (k - 1))
                audio == SubSeq(wire_out[k], VBAN_HEADER_SIZE + 1,
                                Len(wire_out[k]))
            IN /\ wire_out[k][6] = c - 1
               /\ Len(wire_out[k]) = 28 + 4 * c
               /\ Lefts(audio) = Rights(audio)
               /\ Lefts(audio) =
                    SubSeq(wire_in.samples, CHUNK_SIZE * (k - 1) + 1,
                           CHUNK_SIZE * (k - 1) + c)
               /\ from_le_bytes(SubSeq(wire_out[k], 25, 28)) =
                    WrappingAdd(wire_in.frame_counter, k - 1)

\* C20 witness: a period of 129 samples left as a full packet and a packet
\* of one sample, the frame counter wrapping between them.
C20_Witness ==
  /\ wire_op = "packetize"
  /\ Len(wire_in.samples) = CHUNK_SIZE + 1
  /\ wire_in.frame_counter = [hi |-> 65535, lo |-> 65535]
  /\ Len(wire_out) = 2
  /\ Len(wire_out[1]) = 540
  /\ Len(wire_out[2]) = 32
  /\ SubSeq(wire_out[2], 25, 32) = <<0, 0, 0, 0, 100, 0, 100, 0>>

\* c + k modulo 2^32, for a counter kept as [hi, lo] and k < 2^16.
U32Plus(c, k) ==
  [hi |-> (c.hi + (c.lo + k) \div U16) % U16, lo |-> (c.lo + k) % U16]

\* The packets that n processed samples make.
PacketCount(n) == (n + CHUNK_SIZE - 1) \div CHUNK_SIZE

\* C21: over the periods of a session the k-th packet handed to the socket
\* (k from 0) carries in bytes 24..27 the counter the first period started
\* with plus k, modulo 2^32 (k itself when that is the 0 of a new session);
\* a muted period hands over no packet; every packet of an unmuted period is
\* handed over and counted whatever the sends returned; the counter after
\* the periods is the start plus the number of packets, modulo 2^32.
C21_FrameCounterSequence ==
  wire_op = "periods" =>
    LET ps == wire_in.periods
        made(i) == IF ps[i].is_muted THEN 0 ELSE PacketCount(Len(ps[i].samples))
        total == made(1) + made(2)
    IN /\ Len(wire_out.tx) = total
       /\ \A k \in 1..total :
            from_le_bytes(SubSeq(wire_out.tx[k].header, 25, 28))
              = U32Plus(wire_in.frame_counter, k - 1)
       /\ wire_out.frame_counter = U32Plus(wire_in.frame_counter, total)
       /\ wire_out.frames_sent = total

\* C21 witness: a muted period, then a period of two packets whose first
\* send failed, in a session that had handed over 2^32 - 1 packets: the
\* packets carry 2^32 - 1 and 0, and the counter is 1 after them.
C21_Witness ==
  /\ wire_op = "periods"
  /\ wire_in.frame_counter = [hi |-> 65535, lo |-> 65535]
  /\ wire_in.periods[1].is_muted
  /\ ~wire_in.periods[2].is_muted
  /\ wire_in.periods[2].results = <<FALSE, TRUE>>
  /\ Len(wire_out.tx) = 2
  /\ SubSeq(wire_out.tx[1].header, 25, 28) = <<255, 255, 255, 255>>
  /\ SubSeq(wire_out.tx[2].header, 25, 28) = <<0, 0, 0, 0>>
  /\ wire_out.frame_counter = [hi |-> 0, lo |-> 1]

\* C22: whatever the sends of a period return, every chunk of the period is
\* handed to the socket, in order, the counters count each of them, and the
\* period goes on to its playback step.
C22_SendFailureNotFatal ==
  wire_op = "send" =>
    LET count == PacketCount(Len(wire_in.samples))
    IN /\ wire_out.flow = "playback"
       /\ Len(wire_out.tx) = count
       /\ \A k \in 1..count :
            /\ wire_out.tx[k].payload
                 = Stereo(SubSeq(wire_in.samples, CHUNK_SIZE * (k - 1) + 1,
                                 Min(Len(wire_in.samples), CHUNK_SIZE * k)))
            /\ wire_out.tx[k].frame_counter
                 = U32Plus(wire_in.frame_counter, k - 1)
       /\ wire_out.frames_sent = wire_in.frames_sent + count
       /\ wire_out.frame_counter = U32Plus(wire_in.frame_counter, count)

\* C22 witness: the first send of a period of two chunks failed, the second
\* chunk was handed over all the same, and the period goes on.
C22_Witness ==
  /\ wire_op = "send"
  /\ wire_in.results = <<FALSE, TRUE>>
  /\ Len(wire_in.samples) = CHUNK_SIZE + 1
  /\ Len(wire_out.tx) = 2
  /\ wire_out.tx[2].payload = <<100, 100>>
  /\ wire_out.flow = "playback"

\* The sample at position i of s, 0 past its end.
At0(s, i) == IF i <= Len(s) THEN s[i] ELSE 0

\* C24 (as stated): in an unmuted mix the left and the right sample of every
\* stereo frame j carry the sidetone of the j-th sample of the ring (0 past
\* its end), and the ring has lost one sample for each frame.
C24_SidetoneStereoDuplication ==
  (wire_op = "mix" /\ ~wire_in.is_muted) =>
    /\ \A j \in 1..(PlaybackLen \div 2) :
         LET side == At0(wire_in.sidetone, j) * SidetoneGain
         IN /\ wire_out.out[2 * j - 1] =
                 Clamp(At0(wire_in.vban, 2 * j - 1) * HeadphoneGain + side,
                       -32768, 32767)
            /\ wire_out.out[2 * j] =
                 Clamp(At0(wire_in.vban, 2 * j) * HeadphoneGain + side,
                       -32768, 32767)
    /\ wire_out.sidetone =
         SubSeq(wire_in.sidetone, PlaybackLen \div 2 + 1, Len(wire_in.sidetone))

\* C25: a sidetone write leaves at most SidetoneMax samples in a ring that
\* held at most that many; the ring after it is the ring before it followed
\* by as many of the new samples, from the first, as there was room for; and
\* an unmuted mix then reads the ring from its front, one sample for the
\* left sample of each frame.
C25_SidetoneRingBound ==
  wire_op = "sidetone_write" =>
    LET room == SidetoneMax - Len(wire_in.sidetone)
        taken == SubSeq(wire_in.samples, 1, Min(room, Len(wire_in.samples)))
        read == Mix(0, <<>>, wire_out, FALSE)
    IN /\ Len(wire_out) <= SidetoneMax
       /\ wire_out = wire_in.sidetone \o taken
       /\ \A j \in 1..(PlaybackLen \div 2) :
            read.out[2 * j - 1] =
              Clamp(At0(wire_out, j) * SidetoneGain, -32768, 32767)

\* C25 witness: a write of a period met a full ring and left it as it was.
C25_Witness ==
  /\ wire_op = "sidetone_write"
  /\ Len(wire_in.sidetone) = SidetoneMax
  /\ Len(wire_in.samples) = PeriodSize
  /\ wire_in.sidetone[1] # wire_in.sidetone[SidetoneMax]
  /\ wire_out = wire_in.sidetone

\* C26: in an unmuted mix every playback sample of a frame for which the
\* ring holds no sample is the clamped network sample alone (sidetone 0);
\* with an empty ring, as it is created, that is every sample of the period.
C26_SidetoneUnderrun ==
  (wire_op = "mix" /\ ~wire_in.is_muted) =>
    \A i \in 1..PlaybackLen :
      (i + 1) \div 2 > Len(wire_in.sidetone) =>
        wire_out.out[i] =
          Clamp(At0(wire_in.vban, i) * HeadphoneGain, -32768, 32767)

\* C26 witness: an unmuted mix over an empty ring and an empty jitter
\* buffer: a period of silence.
C26_Witness ==
  /\ wire_op = "mix"
  /\ ~wire_in.is_muted
  /\ wire_in.sidetone = <<>>
  /\ wire_in.vban = <<>>
  /\ wire_out.out = Zeros(PlaybackLen)

\* round(threshold * 32767) for the threshold t / ThresholdDen clamped to
\* [0.01, 1.0].
RoundedClipMax(t) ==
  LET c == Clamp(t, ThresholdDen \div 100, ThresholdDen)
  IN (2 * c * 32767 + ThresholdDen) \div (2 * ThresholdDen)

\* C27: every sample process returns, after any inputs, is at most
\* round(threshold * 32767) in absolute value for the clamped threshold; so
\* is every sample returned after a reset.
C27_LimiterBound ==
  /\ wire_op = "limiter" =>
       \A k \in 1..Len(wire_out) :
         Abs(wire_out[k].out) <= RoundedClipMax(wire_in.threshold)
  /\ wire_op = "limiter_reset" =>
       \A k \in 1..Len(wire_out.calls) :
         Abs(wire_out.calls[k].out)
           <= HardClipMax(wire_out.calls[k].lim.threshold)

\* C27 witness: at the default threshold a full-scale input, while the
\* envelope is still near 1, comes out at the clip value 4915.
C27_Witness ==
  /\ wire_op = "limiter"
  /\ wire_in.threshold = LimiterThreshold
  /\ wire_in.inputs = <<32767, 32767, -32768>>
  /\ wire_out[2].out = 4915
  /\ Limited(32767, wire_out[3].lim.envelope) > 4915

\* C28: the first lookahead_samples calls return 0 whatever the inputs; the
\* queue holds at most lookahead_samples entries after a call (one more
\* between the push and the pop inside it), namely the latest inputs; from
\* call lookahead_samples + 1 on, the sample returned is the input of
\* lookahead_samples calls earlier, scaled by the envelope and clipped.
\* After reset (envelope 1.0, queue empty) the same holds of the calls that
\* follow it.
C28_LimiterWarmUp ==
  /\ wire_op = "limiter" =>
       \A k \in 1..Len(wire_out) :
         LET lim == wire_out[k].lim
             clip == HardClipMax(lim.threshold)
         IN /\ Len(lim.lookahead_buffer) = Min(k, LookaheadSamples)
            /\ lim.lookahead_buffer
                 = SubSeq(wire_in.inputs, k - Min(k, LookaheadSamples) + 1, k)
            /\ IF k <= LookaheadSamples
                 THEN wire_out[k].out = 0
                 ELSE wire_out[k].out =
                        Clamp(Limited(wire_in.inputs[k - LookaheadSamples],
                                      lim.envelope),
                              -clip, clip)
  /\ wire_op = "limiter_reset" =>
       /\ wire_out.limiter.envelope = F32One
       /\ wire_out.limiter.lookahead_buffer = <<>>
       /\ \A k \in 1..Len(wire_out.calls) :
            LET lim == wire_out.calls[k].lim
                clip == HardClipMax(lim.threshold)
            IN /\ Len(lim.lookahead_buffer) = Min(k, LookaheadSamples)
               /\ IF k <= LookaheadSamples
                    THEN wire_out.calls[k].out = 0
                    ELSE wire_out.calls[k].out =
                           Clamp(Limited(wire_in.inputs[k - LookaheadSamples],
                                         lim.envelope),
                                 -clip, clip)

\* C28 witness: after the warm-up the calls return the inputs one
\* look-ahead late: 200 comes out when the call after it is made.
C28_Witness ==
  /\ wire_op = "limiter"
  /\ Len(wire_in.inputs) = LookaheadSamples + 2
  /\ wire_in.inputs[1] = 32767
  /\ wire_in.inputs[2] = 200
  /\ wire_in.inputs[LookaheadSamples + 2] = 0
  /\ wire_out[1].out = 0
  /\ wire_out[LookaheadSamples + 2].out = 200

\* The 16-byte name field holds the first bytes of the name, 15 at most, and
\* zeros after them.
NameFieldOk(field, name) ==
  LET n == Min(Len(name), VBAN_STREAM_NAME_SIZE - 1)
  IN /\ Len(field) = VBAN_STREAM_NAME_SIZE
     /\ \A i \in 1..VBAN_STREAM_NAME_SIZE :
          field[i] = IF i <= n THEN name[i] ELSE 0

\* C32: for a stream name of any length, the name field of the header that
\* VbanHeader::new builds and of the header of every packet the period loop
\* writes holds at most 15 name bytes (the first 15 of a longer name) and
\* then at least one zero byte.
C32_StreamNameField ==
  wire_op = "header" =>
    /\ NameFieldOk(wire_out.new.stream_name, wire_in.name)
    /\ NameFieldOk(SubSeq(wire_out.engine, 9, 24), wire_in.name)

\* The ring after a capture step that met the ring `before` and captured
\* buf: the captured samples behind those it held, up to the ring's bound.
RingAfter(before, buf) ==
  SubSeq(before \o buf, 1, Min(Len(before) + Len(buf), SidetoneMax))

\* C33: the samples written to the sidetone ring are the captured samples
\* themselves, and two sessions with the same captured periods and the same
\* mute history that differ in mic gain, limiter flag or limiter threshold
\* write the same sidetone samples and play the same sidetone.
C33_SidetoneIndependence ==
  wire_op = "capture" =>
    \A k \in 1..Len(wire_in.periods) :
      LET p == wire_in.periods[k]
          a == wire_out.a[k]
          b == wire_out.b[k]
      IN /\ a.written = IF p.is_muted THEN a.before
                        ELSE RingAfter(a.before, p.buf)
         /\ a.before = b.before
         /\ a.written = b.written
         /\ a.played = b.played

\* C33 witness: two sessions whose configurations differ in gain, limiter
\* flag and threshold sent different samples for an unmuted period, wrote
\* the same captured samples to the ring and played the same sidetone.
C33_Witness ==
  /\ wire_op = "capture"
  /\ wire_in.a.mic_gain # wire_in.b.mic_gain
  /\ wire_in.a.limiter_enabled # wire_in.b.limiter_enabled
  /\ wire_in.a.limiter_threshold # wire_in.b.limiter_threshold
  /\ ~wire_in.periods[1].is_muted
  /\ wire_out.a[1].out # wire_out.b[1].out
  /\ wire_out.a[1].written = wire_in.periods[1].buf
  /\ wire_out.a[1].written = wire_out.b[1].written
  /\ wire_out.a[1].played = wire_out.b[1].played
  /\ \E i \in 1..Len(wire_out.a[1].played) : wire_out.a[1].played[i] # 0

\* A captured sample clamped to the pre-clip range, multiplied by the mic
\* gain, and clamped to the int16 range.
PreClippedScaled(s, mic_gain) ==
  LET clipped == IF s > PreClipThreshold THEN PreClipThreshold
                 ELSE IF s < -PreClipThreshold THEN -PreClipThreshold ELSE s
      scaled == TruncDiv(clipped * mic_gain.num, mic_gain.den)
  IN IF scaled > 32767 THEN 32767
     ELSE IF scaled < -32768 THEN -32768 ELSE scaled

\* C34: the samples of an unmuted period that are sent are the captured
\* samples, each pre-clipped, then scaled by the mic gain and clamped to
\* int16; with the limiter disabled they are sent as they are, with the
\* limiter enabled they are what the session's limiter makes of them, in
\* order.
C34_OutboundOrder ==
  wire_op = "capture" =>
    \A k \in 1..Len(wire_in.periods) :
      LET p == wire_in.periods[k]
          r == wire_out.a[k]
          scaled == [i \in 1..Len(p.buf) |->
                       PreClippedScaled(p.buf[i], wire_in.a.mic_gain)]
      IN /\ r.limiter.some = wire_in.a.limiter_enabled
         /\ p.is_muted => r.out = <<>>
         /\ (~p.is_muted /\ ~wire_in.a.limiter_enabled) => r.out = scaled
         /\ (~p.is_muted /\ wire_in.a.limiter_enabled) =>
              r.out = LimiterProcessBuffer(r.limiter.value, scaled).out

\* C34 witness: with the limiter disabled and mic gain 0.5 the captured
\* 32767 is sent as 15000 (pre-clipped to 30000 before the gain) and -5 as
\* -2, while the same period through an enabled limiter is sent otherwise.
C34_Witness ==
  /\ wire_op = "capture"
  /\ ~wire_in.a.limiter_enabled
  /\ wire_in.b.limiter_enabled
  /\ wire_in.a.mic_gain = [num |-> 1, den |-> 2]
  /\ wire_in.b.mic_gain = wire_in.a.mic_gain
  /\ ~wire_in.periods[1].is_muted
  /\ wire_in.periods[1].buf = <<32767, -5>>
  /\ wire_out.a[1].out = <<15000, -2>>
  /\ wire_out.b[1].out # wire_out.a[1].out

\* The bytes of a payload read two by two as little-endian 16-bit two's
\* complement numbers, a last odd byte left out.
LittleEndian16(bytes) ==
  [i \in 1..(Len(bytes) \div 2) |->
     LET u == bytes[2 * i - 1] + 256 * bytes[2 * i]
     IN IF u < 32768 THEN u ELSE u - 65536]

\* C35: the samples an accepted datagram adds to the jitter buffer are, in
\* payload order: for a codec byte other than Float32 (PCM16 or any other),
\* floor(len / 2) samples, the payload bytes read as little-endian 16-bit
\* numbers; for Float32, floor(len / 4) samples, each float times 32767
\* clamped to the int16 range.
C35_PayloadDecoding ==
  (wire_op = "receive" /\ RecvAccepts(wire_in.data, StreamName)) =>
    LET codec == wire_in.data[8]
        audio == SubSeq(wire_in.data, VBAN_HEADER_SIZE + 1, Len(wire_in.data))
        n == IF codec = CodecFloat32 THEN Len(audio) \div 4
             ELSE Len(audio) \div 2
        samples == IF codec = CodecFloat32 THEN wire_in.payload
                   ELSE LittleEndian16(audio)
    IN /\ Len(samples) = n
       /\ \A i \in 1..n : samples[i] \in -32768..32767
       /\ wire_out.buffer =
            LastN(wire_in.buffer \o samples,
                  Min(JitterCapacity, Len(wire_in.buffer) + n))

\* C35 witness: an accepted Float32 datagram carrying 2.0, -2.0 and three
\* more bytes added 32767 and -32768, in this order, behind the two samples
\* the buffer held.
C35_Witness ==
  /\ wire_op = "receive"
  /\ wire_in.data[8] = CodecFloat32
  /\ Len(wire_in.data) = VBAN_HEADER_SIZE + 11
  /\ wire_in.buffer = <<1, 2>>
  /\ wire_out.buffer = <<1, 2, 32767, -32768>>

\* clamp(a + b, -32768, 32767) for a and b within 32 bits, the sum taken
\* without a bound.
ClampedSum(a, b) ==
  IF a > 0 /\ b > 32767 - a THEN 32767
  ELSE IF a < 0 /\ b < -32768 - a THEN -32768
  ELSE IF a + b > 32767 THEN 32767
  ELSE IF a + b < -32768 THEN -32768
  ELSE a + b

\* C36: for every network sample, sidetone sample, headphone gain and
\* sidetone gain the sample written to playback is
\* clamp(network * headphone_gain + sidetone * sidetone_gain, -32768, 32767),
\* and the sum does not overflow the 32-bit integer it is computed in.
C36_MixerRange ==
  wire_op = "mix_sample" =>
    /\ ~wire_out.overflow
    /\ ~wire_out.panic
    /\ wire_out.sample =
         ClampedSum(wire_in.network * wire_in.headphone_gain,
                    wire_in.sidetone * wire_in.sidetone_gain)

\* C37: a header that decode accepts has a rate index from 0 to 19, and its
\* sample_rate() is the entry of the table at that index: no rate stands in
\* for an index of the wire that is outside the table.
C37_DecodedRateInTable ==
  (wire_op = "decode" /\ wire_out.ok) =>
    /\ wire_out.value.sample_rate_index \in 0..19
    /\ sample_rate(wire_out.value)
         = SAMPLE_RATES[wire_out.value.sample_rate_index + 1]

\* C38: for a stream name of at most 15 ASCII characters, a chunk of c
\* samples, 1 <= c <= 128, and every frame counter, the 28 header bytes the
\* period loop writes are those of VbanHeader::new(name, 48000, 2, Pcm16)
\* with that frame counter encoded with samples_per_frame = c; decode
\* accepts them and reports c samples, two channels, 48000 Hz, PCM16 and
\* the counter, and a receiver of the same stream name takes the packet.
C38_EngineHeaderIsCodecHeader ==
  (wire_op = "header"
     /\ Len(wire_in.name) <= VBAN_STREAM_NAME_SIZE - 1
     /\ wire_in.samples_per_frame \in 1..128) =>
    /\ wire_out.engine = wire_out.codec
    /\ Len(wire_out.engine) = 28
    /\ wire_out.decoded.ok
    /\ num_samples(wire_out.decoded.value) = wire_in.samples_per_frame
    /\ num_channels(wire_out.decoded.value) = 2
    /\ sample_rate(wire_out.decoded.value) = 48000
    /\ wire_out.decoded.value.codec = CodecPcm16
    /\ wire_out.decoded.value.frame_counter = wire_in.frame_counter
    /\ stream_name_str(wire_out.decoded.value) = wire_in.name
    /\ wire_out.accepted

\* C38 witness: the header of a full chunk of a stream with a 15-character
\* name and a frame counter of four different bytes is the codec's, and is
\* accepted.
C38_Witness ==
  /\ wire_op = "header"
  /\ Len(wire_in.name) = VBAN_STREAM_NAME_SIZE - 1
  /\ wire_in.samples_per_frame = 128
  /\ wire_in.frame_counter = [hi |-> 258, lo |-> 772]
  /\ wire_out.engine = wire_out.codec
  /\ wire_out.engine[6] = 127
  /\ SubSeq(wire_out.engine, 25, 28) = <<4, 3, 2, 1>>
  /\ wire_out.accepted

(***************************************************************************)
(* The jitter buffer between the receiver and the mixer (BufSpec).         *)
(***************************************************************************)
\* The samples of s, and whether they stand in the order they were pushed
\* in (the pushing side labels its samples 1, 2, 3, ...), none twice.
Elems(s) == {s[i] : i \in 1..Len(s)}
InPushOrder(s) == \A i, j \in 1..Len(s) : i < j => s[i] < s[j]

\* C39: pushes and pops exclude each other (no pop falls between the steps
\* of a push); the samples delivered so far, followed by those queued, are
\* pushed samples in push order, none twice; a pop delivers the front of the
\* queue and takes it off the queue; a completed push has appended its
\* samples behind those queued; and a sample leaves the queue only by being
\* delivered or by the eviction of a push.
C39_DeliveredSubsequence ==
  /\ [](/\ InPushOrder(tb_delivered \o tb_samples)
        /\ \A x \in Elems(tb_delivered \o tb_samples) : x \in 1..(tb_next - 1)
        /\ tb_pc = "evict" =>
             \A x \in Elems(tb_samples) : \A y \in Elems(tb_data) : x < y)
  /\ [][ /\ tb_pc = "evict" => tb_delivered' = tb_delivered
         /\ tb_delivered' # tb_delivered =>
              /\ tb_delivered' = tb_delivered \o tb_ret'
              /\ tb_ret' \o tb_samples' = tb_samples
         /\ (tb_pc = "evict" /\ tb_pc' = "idle") =>
              tb_samples' = tb_samples \o tb_data
         /\ \A x \in Elems(tb_samples) \ Elems(tb_samples') :
              \/ x \in Elems(tb_delivered') \ Elems(tb_delivered)
              \/ /\ tb_pc = "evict"
                 /\ Len(tb_samples) + Len(tb_data) > tb_capacity
                 /\ x = tb_samples[1]
       ]_vars

\* C39 witness: after pushes, an eviction and pops the mixer has received
\* samples with one missing between them, and more are queued.
C39_Witness ==
  /\ tb_op = "pop"
  /\ tb_ret # <<>>
  /\ Len(tb_delivered) >= 2
  /\ \E i \in 1..(Len(tb_delivered) - 1) :
       tb_delivered[i + 1] > tb_delivered[i] + 1
  /\ tb_samples # <<>>
=========================================================================
